---- MODULE Spec2Model ----
(***************************************************************************)
(* A model of the financial diagnostic engine (diagnostic_engine.py):     *)
(* FinancialDiagnostics is a state machine whose state is the engine's    *)
(* fields (transactions, accounts, user_profile, diagnostics, gaps,       *)
(* risks, overall_score) and whose steps are the statements of            *)
(* run_full_diagnostic, one action per classifier call.  The functions of *)
(* advanced_analytics.py and analytics.py are operators, called one at a  *)
(* time; the password reset of user_store.py is a second state machine    *)
(* over the database, the clock and the requests under way.               *)
(*                                                                         *)
(* Numbers.  A Python float is held as an exact fraction n/d (d > 0, in   *)
(* lowest terms) or as NaN; a standard deviation divided by a mean is     *)
(* held by its sign and its square.  Amounts of the input tables are      *)
(* whole euros.  Texts are strings; `in`, str.contains and lower() are    *)
(* computed character by character.                                       *)
(***************************************************************************)
EXTENDS Integers, Sequences, FiniteSets, TLC

(***************************************************************************)
(* Bounds of the model.                                                    *)
(***************************************************************************)
\* how many rows of Catalogue an input transactions table is drawn from
NRows == 9
\* how many times run_full_diagnostic is called on one engine
MaxRuns == 2
\* how many rows of Catalogue the tables of two concurrent engines are drawn from
ConcRows == 2

(***************************************************************************)
(* Text: str.lower(), `needle in text`, str.contains(pattern, case=False). *)
(***************************************************************************)
UpperChars == "ABCDEFGHIJKLMNOPQRSTUVWXYZ"
LowerChars == "abcdefghijklmnopqrstuvwxyz"
DigitChars == "0123456789"

CharAt(s, i) == SubSeq(s, i, i)

UpperSet == {CharAt(UpperChars, i) : i \in 1..Len(UpperChars)}
LowerOf ==
    [c \in UpperSet |->
        CharAt(LowerChars, CHOOSE i \in 1..Len(UpperChars) : CharAt(UpperChars, i) = c)]

LowerChar(c) == IF c \in UpperSet THEN LowerOf[c] ELSE c

RECURSIVE LowerFrom(_, _)
LowerFrom(s, i) ==
    IF i > Len(s) THEN "" ELSE LowerChar(CharAt(s, i)) \o LowerFrom(s, i + 1)

\* str.lower()
Lower(s) == LowerFrom(s, 1)

\* `needle in text`
Contains(text, needle) ==
    \E i \in 1..(Len(text) - Len(needle) + 1) :
        SubSeq(text, i, i + Len(needle) - 1) = needle

\* Series.str.contains('|'.join(keywords), case=False): some keyword occurs
\* in the text, letter case ignored (the keywords are lower-case literals)
ContainsAny(text, keywords) ==
    LET t == Lower(text)
    IN  \E k \in 1..Len(keywords) : Contains(t, keywords[k])

DigitSet == {CharAt(DigitChars, i) : i \in 1..Len(DigitChars)}
DigitOf ==
    [c \in DigitSet |-> (CHOOSE i \in 1..Len(DigitChars) : CharAt(DigitChars, i) = c) - 1]

IsDigit(c) == c \in DigitSet
DigitVal(c) == DigitOf[c]

AllDigits(s) == Len(s) > 0 /\ \A i \in 1..Len(s) : IsDigit(CharAt(s, i))

RECURSIVE DigitsVal(_, _)
\* the value of the first n characters of a digit string
DigitsVal(s, n) ==
    IF n = 0 THEN 0 ELSE 10 * DigitsVal(s, n - 1) + DigitVal(CharAt(s, n))

(***************************************************************************)
(* Numbers: fractions, NaN, and square roots known by their square.        *)
(***************************************************************************)
Abs(x) == IF x < 0 THEN -x ELSE x
Max(a, b) == IF a >= b THEN a ELSE b
Min(a, b) == IF a <= b THEN a ELSE b

RECURSIVE GCD(_, _)
GCD(a, b) == IF b = 0 THEN a ELSE GCD(b, a % b)

\* the float n/d (d # 0), in lowest terms with a positive denominator
Frac(n, d) ==
    LET g == GCD(Abs(n), Abs(d))
        s == IF d < 0 THEN -1 ELSE 1
    IN  [nan |-> FALSE, n |-> (s * n) \div g, d |-> (s * d) \div g]

Num(n) == [nan |-> FALSE, n |-> n, d |-> 1]
NaN == [nan |-> TRUE, n |-> 0, d |-> 1]

\* float comparisons: every comparison with NaN is False
Lt(a, b) == ~a.nan /\ ~b.nan /\ a.n * b.d < b.n * a.d
Le(a, b) == ~a.nan /\ ~b.nan /\ a.n * b.d <= b.n * a.d
Gt(a, b) == Lt(b, a)
Ge(a, b) == Le(b, a)
Ne(a, b) == a.nan \/ b.nan \/ a.n * b.d # b.n * a.d

FAdd(a, b) == IF a.nan \/ b.nan THEN NaN ELSE Frac(a.n * b.d + b.n * a.d, a.d * b.d)
FSub(a, b) == IF a.nan \/ b.nan THEN NaN ELSE Frac(a.n * b.d - b.n * a.d, a.d * b.d)
FMul(a, b) == IF a.nan \/ b.nan THEN NaN ELSE Frac(a.n * b.n, a.d * b.d)
\* a / b for b # 0 (every division of the engine is guarded, or has a NaN operand)
FDiv(a, b) == IF a.nan \/ b.nan THEN NaN ELSE Frac(a.n * b.d, a.d * b.n)

\* round(x, 0) of a float x >= 0 or x < 0, ties to the even neighbour
RoundHalfEven(x) ==
    LET q == x.n \div x.d
        r == x.n % x.d
    IN  IF 2 * r < x.d THEN q
        ELSE IF 2 * r > x.d THEN q + 1
        ELSE IF q % 2 = 0 THEN q ELSE q + 1

(***************************************************************************)
(* Table cells.  A cell of the date column is a text (k = "str"), a       *)
(* timestamp (k = "ts", v = <<year, month, day>>) or NaT; a cell of the    *)
(* amount column is a text, a number (k = "num", v) or NaN.                *)
(***************************************************************************)
StrCell(s) == [k |-> "str", s |-> s, v |-> <<>>]
NaT == [k |-> "nat", s |-> "", v |-> <<>>]
Timestamp(y, m, d) == [k |-> "ts", s |-> "", v |-> <<y, m, d>>]

AmountText(s) == [k |-> "str", s |-> s, v |-> 0]
AmountNum(v) == [k |-> "num", s |-> "", v |-> v]
AmountNaN == [k |-> "nan", s |-> "", v |-> 0]

IsLeap(y) == (y % 4 = 0 /\ y % 100 # 0) \/ y % 400 = 0
DaysInMonth(y, m) ==
    IF m \in {4, 6, 9, 11} THEN 30
    ELSE IF m = 2 THEN (IF IsLeap(y) THEN 29 ELSE 28)
    ELSE 31

\* pd.to_datetime(cell, errors='coerce') of one cell: a text in the form
\* YYYY-MM-DD naming a calendar day becomes a timestamp, any other text NaT;
\* a timestamp or NaT is kept
ToDatetime(cell) ==
    IF cell.k # "str" THEN cell
    ELSE LET s == cell.s
             shaped == /\ Len(s) = 10
                       /\ CharAt(s, 5) = "-" /\ CharAt(s, 8) = "-"
                       /\ AllDigits(SubSeq(s, 1, 4))
                       /\ AllDigits(SubSeq(s, 6, 7))
                       /\ AllDigits(SubSeq(s, 9, 10))
             y == DigitsVal(SubSeq(s, 1, 4), 4)
             m == DigitsVal(SubSeq(s, 6, 7), 2)
             d == DigitsVal(SubSeq(s, 9, 10), 2)
         IN  IF shaped /\ y >= 1 /\ m \in 1..12 /\ d \in 1..DaysInMonth(y, m)
             THEN Timestamp(y, m, d)
             ELSE NaT

\* pd.to_numeric(cell, errors='coerce') of one cell: a text of decimal digits
\* with an optional leading minus sign becomes its number, any other text NaN;
\* a number or NaN is kept
ToNumeric(cell) ==
    IF cell.k # "str" THEN cell
    ELSE LET s == cell.s
             neg == Len(s) > 0 /\ CharAt(s, 1) = "-"
             body == IF neg THEN SubSeq(s, 2, Len(s)) ELSE s
         IN  IF AllDigits(body)
             THEN AmountNum((IF neg THEN -1 ELSE 1) * DigitsVal(body, Len(body)))
             ELSE AmountNaN

\* Series.dt.to_period('M') of a timestamp: the calendar month, counted in months
ToPeriodM(cell) == cell.v[1] * 12 + cell.v[2]

(***************************************************************************)
(* The input tables the model draws from.                                  *)
(***************************************************************************)
RawRow(date, amount, type, category, description) ==
    [date |-> StrCell(date), amount |-> AmountText(amount), type |-> type,
     category |-> category, description |-> description]

\* rows a caller may supply; a transactions table is the rows of a subset, in
\* this order
Catalogue == <<
    RawRow("2024-01-05", "3000", "income",  "Salary",      "Salary ACME Ltd"),
    RawRow("2024-01-28", "2800", "expense", "Debt",        "Credit Card payment VISA"),
    RawRow("2024-02-05", "3000", "income",  "Salary",      "Salary ACME Ltd"),
    RawRow("2024-02-10", "900",  "expense", "Rent",        "Rent February"),
    RawRow("2024-03-05", "3600", "income",  "Freelance",   "Invoice 17 paid"),
    RawRow("2024-03-12", "600",  "expense", "Insurance",   "Health insurance premium"),
    RawRow("2024-03-20", "300",  "expense", "Tax",         "Income tax HMRC"),
    RawRow("2024-04-02", "500",  "expense", "Investments", "ETF savings plan"),
    RawRow("2024-02-30", "400",  "expense", "Groceries",   "Supermarket"),
    RawRow("2024-04-09", "n/a",  "expense", "Groceries",   "Supermarket"),
    RawRow("2024-04-11", "700",  "Income",  "Salary",      "Bonus ACME Ltd"),
    RawRow("2024-04-15", "-200", "expense", "Shopping",    "Refund shoes")
>>

RECURSIVE RowsOf(_, _)
\* the rows of Catalogue picked by the set S of indices, in catalogue order
RowsOf(S, i) ==
    IF i > Len(Catalogue) THEN <<>>
    ELSE (IF i \in S THEN <<Catalogue[i]>> ELSE <<>>) \o RowsOf(S, i + 1)

TransactionTables(n) == {RowsOf(S, 1) : S \in SUBSET (1..n)}

AccountTables == {
    <<>>,
    <<[type |-> "savings", balance |-> 2000]>>,
    <<[type |-> "checking", balance |-> 5000], [type |-> "savings", balance |-> 40000]>>
}

\* a Python dict is a function on its keys; {} is the function on no key
EmptyDict == <<>>
DictGet(dict, key, default) == IF key \in DOMAIN dict THEN dict[key] ELSE default

\* the user_profile argument: None, or a dict
NoneProfile == [none |-> TRUE, dict |-> EmptyDict]
DictProfile(dict) == [none |-> FALSE, dict |-> dict]
Profiles == {
    NoneProfile,
    DictProfile([goals |-> <<[name |-> "House deposit", target |-> 20000]>>])
}

Inputs(n) ==
    [transactions : TransactionTables(n), accounts : AccountTables, user_profile : Profiles]

NoInput == [transactions |-> <<>>, accounts |-> <<>>, user_profile |-> NoneProfile]

(***************************************************************************)
(* State.                                                                  *)
(***************************************************************************)
Engines == {"e1", "e2"}

VARIABLES
    input,            \* per engine: the tables and profile the caller passed in
    transactions,     \* self.transactions
    accounts,         \* self.accounts
    user_profile,     \* self.user_profile
    diagnostics,      \* self.diagnostics: category name -> result dict
    gaps,             \* self.gaps
    risks,            \* self.risks
    overall_score,    \* self.overall_score, in tenths
    recommendations,  \* the local of run_full_diagnostic
    questionnaire,    \* the local of run_full_diagnostic
    pc,               \* the statement of run_full_diagnostic each engine is at
    returned,         \* per engine: what each call of run_full_diagnostic returned
    arg,              \* a function called on its own: its name and arguments
    out,              \* what that call returned
    db,               \* users.db: the tables users and reset_tokens
    clock,            \* datetime.now(), in hours
    requests          \* the calls of the user store under way: position and locals

\* the state of the user store
StoreVars == <<db, clock, requests>>

vars == <<input, transactions, accounts, user_profile, diagnostics, gaps, risks,
          overall_score, recommendations, questionnaire, pc, returned, arg, out, StoreVars>>

\* no function is called on its own
NoCall == [fn |-> "none"]
Pending == [done |-> FALSE]

\* the user store is not used
NoStore ==
    /\ db = [users |-> <<>>, reset_tokens |-> <<>>]
    /\ clock = 0
    /\ requests = <<>>

Returned(value) == [done |-> TRUE, value |-> value]

\* user_profile or {}
ProfileOrEmpty(profile) ==
    IF profile.none \/ DOMAIN profile.dict = {} THEN EmptyDict ELSE profile.dict

\* FinancialDiagnostics.__init__ for the engines in `built`, each on its input
Construct(built, in) ==
    /\ input = in
    /\ transactions = [e \in Engines |-> in[e].transactions]
    /\ accounts = [e \in Engines |-> in[e].accounts]
    /\ user_profile = [e \in Engines |-> ProfileOrEmpty(in[e].user_profile)]
    /\ diagnostics = [e \in Engines |-> EmptyDict]
    /\ gaps = [e \in Engines |-> <<>>]
    /\ risks = [e \in Engines |-> <<>>]
    /\ overall_score = [e \in Engines |-> Num(0)]
    /\ recommendations = [e \in Engines |-> <<>>]
    /\ questionnaire = [e \in Engines |-> <<>>]
    /\ pc = [e \in Engines |-> IF e \in built THEN "idle" ELSE "unbuilt"]
    /\ returned = [e \in Engines |-> <<>>]

\* one engine, built on any input
Init ==
    /\ \E i \in Inputs(NRows) :
           Construct({"e1"}, [e \in Engines |-> IF e = "e1" THEN i ELSE NoInput])
    /\ arg = NoCall
    /\ out = Pending
    /\ NoStore

\* the inputs of two concurrent engines: any table of the first n rows, with
\* or without goals
ConcInputs(n) ==
    [transactions : TransactionTables(n),
     accounts : {<<[type |-> "savings", balance |-> 2000]>>},
     user_profile : Profiles]

\* two engines, each built on its own input
ConcInit ==
    /\ \E i1 \in ConcInputs(ConcRows), i2 \in ConcInputs(ConcRows) :
           Construct(Engines, [e \in Engines |-> IF e = "e1" THEN i1 ELSE i2])
    /\ arg = NoCall
    /\ out = Pending
    /\ NoStore

(***************************************************************************)
(* run_full_diagnostic, statement by statement.                            *)
(***************************************************************************)
Goto(e, label) == pc' = [pc EXCEPT ![e] = label]

\* a call of run_full_diagnostic begins
Call(e) ==
    /\ pc[e] = "idle"
    /\ Len(returned[e]) < MaxRuns
    /\ Goto(e, "prepare")
    /\ UNCHANGED <<input, transactions, accounts, user_profile, diagnostics, gaps,
                   risks, overall_score, recommendations, questionnaire, returned,
                   arg, out, StoreVars>>

\* _prepare_data with the unparsable amounts filled with 0 instead of their
\* rows being dropped
PreparedTableFilled(df) ==
    LET dated == [i \in 1..Len(df) |-> [df[i] EXCEPT !.date = ToDatetime(df[i].date)]]
        hasDate(r) == r.date.k = "ts"
        kept == SelectSeq(dated, hasDate)
        filled(cell) == IF cell.k = "num" THEN cell ELSE AmountNum(0)
    IN  [i \in 1..Len(kept) |->
            [date |-> kept[i].date, month |-> ToPeriodM(kept[i].date),
             amount |-> filled(ToNumeric(kept[i].amount)), type |-> kept[i].type,
             category |-> kept[i].category, description |-> kept[i].description]]

\* _prepare_data: parse the dates, drop the rows without one, add the month
\* column, parse the amounts, drop the rows without one
PreparedTable(df) ==
    LET dated == [i \in 1..Len(df) |-> [df[i] EXCEPT !.date = ToDatetime(df[i].date)]]
        hasDate(r) == r.date.k = "ts"
        kept == SelectSeq(dated, hasDate)
        enriched == [i \in 1..Len(kept) |->
            [date |-> kept[i].date, month |-> ToPeriodM(kept[i].date),
             amount |-> ToNumeric(kept[i].amount), type |-> kept[i].type,
             category |-> kept[i].category, description |-> kept[i].description]]
        hasAmount(r) == r.amount.k = "num"
    IN  SelectSeq(enriched, hasAmount)

\* the caller's table after _prepare_data, had __init__ kept the caller's
\* frame instead of a copy: the assignment to self.transactions['date']
\* writes the parsed dates into it
CallerTableAliased(df) ==
    [i \in 1..Len(df) |-> [df[i] EXCEPT !.date = ToDatetime(df[i].date)]]

\* the caller's table after _prepare_data: __init__ took a copy of it, the
\* writes of _prepare_data go to the copy
CallerTable(df) == df

PrepareData(e) ==
    /\ pc[e] = "prepare"
    /\ transactions' = [transactions EXCEPT ![e] = PreparedTable(transactions[e])]
    /\ input' = [input EXCEPT ![e].transactions = CallerTable(@)]
    /\ Goto(e, "income")
    /\ UNCHANGED <<accounts, user_profile, diagnostics, gaps, risks,
                   overall_score, recommendations, questionnaire, returned,
                   arg, out, StoreVars>>

(***************************************************************************)
(* Number formatting: the f-string fields {x:.0f}, {x:.1f} and {x:.2f}.    *)
(***************************************************************************)
RECURSIVE NatToStr(_)
NatToStr(n) ==
    IF n < 10 THEN CharAt(DigitChars, n + 1)
    ELSE NatToStr(n \div 10) \o CharAt(DigitChars, (n % 10) + 1)

Pow10(k) == IF k = 0 THEN 1 ELSE IF k = 1 THEN 10 ELSE 100

RECURSIVE PadLeft(_, _)
PadLeft(str, width) == IF Len(str) >= width THEN str ELSE PadLeft("0" \o str, width)

\* format(x, '.<decimals>f') for decimals in 0..2
FormatF(x, decimals) ==
    IF x.nan THEN "nan"
    ELSE LET mag == [nan |-> FALSE, n |-> Abs(x.n), d |-> x.d]
             scaled == RoundHalfEven(FMul(mag, Num(Pow10(decimals))))
             whole == NatToStr(scaled \div Pow10(decimals))
             part == PadLeft(NatToStr(scaled % Pow10(decimals)), decimals)
         IN  (IF x.n < 0 THEN "-" ELSE "")
             \o whole \o (IF decimals = 0 THEN "" ELSE "." \o part)

(***************************************************************************)
(* Series: DataFrame filters, groupby(...).sum(), mean(), std().           *)
(***************************************************************************)
RECURSIVE SumSeq(_)
SumSeq(s) == IF s = <<>> THEN 0 ELSE Head(s) + SumSeq(Tail(s))

RECURSIVE Flatten(_)
\* the lists of a list, one after the other
Flatten(lists) == IF lists = <<>> THEN <<>> ELSE Head(lists) \o Flatten(Tail(lists))

RECURSIVE SortedSeq(_)
\* the members of a finite set of integers, ascending
SortedSeq(S) ==
    IF S = {} THEN <<>>
    ELSE LET m == CHOOSE x \in S : \A y \in S : x <= y
         IN  <<m>> \o SortedSeq(S \ {m})

\* df[df['type'] == t]
OfType(df, t) == LET is(r) == r.type = t IN SelectSeq(df, is)

\* df[df['description'].str.contains('|'.join(keywords), case=False, na=False)]
Matching(df, keywords) ==
    LET hit(r) == ContainsAny(r.description, keywords) IN SelectSeq(df, hit)

\* df['amount'].sum()
AmountSum(df) == SumSeq([i \in 1..Len(df) |-> df[i].amount.v])

\* df.groupby('month')['amount'].sum(): the months present, ascending, and
\* the sum of each
MonthsOf(df) == {df[i].month : i \in 1..Len(df)}
MonthSum(df, m) == LET in(r) == r.month = m IN AmountSum(SelectSeq(df, in))
MonthlySums(df) ==
    LET ms == SortedSeq(MonthsOf(df))
    IN  [i \in 1..Len(ms) |-> MonthSum(df, ms[i])]

\* Series.mean(): NaN for the empty series
Mean(xs) == IF Len(xs) = 0 THEN NaN ELSE Frac(SumSeq(xs), Len(xs))

RECURSIVE GCDSeq(_)
GCDSeq(xs) == IF xs = <<>> THEN 0 ELSE GCD(Abs(Head(xs)), GCDSeq(Tail(xs)))

\* the square of Series.std() / Series.mean() for a series of at least two
\* values whose mean is not 0: var / mean^2 with var the sample variance
\* (ddof=1).  The ratio does not change when every value is divided by a
\* common factor, which keeps the products small.
CVSquared(xs) ==
    LET g == GCDSeq(xs)
        ys == [i \in 1..Len(xs) |-> xs[i] \div g]
        n == Len(ys)
        t == SumSeq(ys)
        q == SumSeq([i \in 1..n |-> ys[i] * ys[i]])
    IN  Frac(n * (n * q - t * t), (n - 1) * t * t)

\* a float known by its square: sqrt(sq), or NaN
Root(sq) == [nan |-> FALSE, sq |-> sq]
RootNaN == [nan |-> TRUE, sq |-> Num(0)]
\* sqrt(sq) < c for a fraction c >= 0
RootLt(r, c) == ~r.nan /\ Lt(r.sq, FMul(c, c))

\* Series.std() / Series.mean() for a series whose mean is > 0: NaN when the
\* series has fewer than two values (std of one value is NaN)
StdOverMean(xs) == IF Len(xs) < 2 THEN RootNaN ELSE Root(CVSquared(xs))

\* the float 1 - sqrt(sq), or NaN
OneMinusRoot(sq) == [nan |-> FALSE, one_minus_sqrt |-> sq]
OneMinusNaN == [nan |-> TRUE, one_minus_sqrt |-> Num(0)]
\* 1 - sqrt(sq) > c for a fraction c <= 1
OneMinusGt(x, c) ==
    ~x.nan /\ Lt(x.one_minus_sqrt, FMul(FSub(Num(1), c), FSub(Num(1), c)))

\* the four-tier status ladder
Ladder(score) ==
    IF score >= 80 THEN "excellent"
    ELSE IF score >= 60 THEN "good"
    ELSE IF score >= 40 THEN "fair"
    ELSE "poor"

(***************************************************************************)
(* An insertion-ordered dict (self.diagnostics): a sequence of entries.    *)
(***************************************************************************)
OHas(dict, key) == \E i \in 1..Len(dict) : dict[i].key = key
OGet(dict, key) == dict[CHOOSE i \in 1..Len(dict) : dict[i].key = key].value
\* dict[key] = value: an existing key keeps its place
OSet(dict, key, value) ==
    IF OHas(dict, key)
    THEN [i \in 1..Len(dict) |->
            IF dict[i].key = key THEN [key |-> key, value |-> value] ELSE dict[i]]
    ELSE Append(dict, [key |-> key, value |-> value])

(***************************************************************************)
(* The ten classifiers.  Each is given the engine's tables and yields the  *)
(* result dict it returns, the gaps it appends to self.gaps and the risks  *)
(* it appends to self.risks, in the order of the appends.  The listings    *)
(* `details` (income) and `top_categories` (expenses) of the result dicts  *)
(* are not held.                                                           *)
(***************************************************************************)
Outcome(result, newGaps, newRisks) ==
    [result |-> result, gaps |-> newGaps, risks |-> newRisks]

GapIncome == "No income data found - unable to assess income stability"
GapDebt == "No debt payments detected - please confirm if you have any loans or credit cards"
GapInvestment == "No investment activity detected - consider building an investment portfolio"
GapInsurance == "No insurance payments detected - please confirm your coverage status"
GapGoals == "No financial goals defined - goal setting is crucial for financial success"
GapCredit == "No credit card activity detected - unable to assess credit health"
GapTax == "No tax-related transactions detected - please verify your tax compliance"

\* len(df.groupby('description')): the distinct descriptions
Descriptions(df) == {df[i].description : i \in 1..Len(df)}
DescriptionSum(df, d) == LET in(r) == r.description = d IN AmountSum(SelectSeq(df, in))
Categories(df) == {df[i].category : i \in 1..Len(df)}
CategorySum(df, c) == LET in(r) == r.category = c IN AmountSum(SelectSeq(df, in))

\* the average of groupby('month')['amount'].sum() over the income rows, or
\* `otherwise` when there is no income row
AvgMonthlyIncome(tx, otherwise) ==
    LET income_df == OfType(tx, "income")
    IN  IF Len(income_df) > 0 THEN Mean(MonthlySums(income_df)) ELSE Num(otherwise)

\* series.iloc[-3:].mean() and series.iloc[:-3].mean()
RecentMean(xs) == Mean(SubSeq(xs, Len(xs) - 2, Len(xs)))
OlderMean(xs) == Mean(SubSeq(xs, 1, Len(xs) - 3))

\* the income classifier falls back the way the expenses classifier does
IncomeNoDataSilent ==
    Outcome([score |-> 50, status |-> "unknown", data_available |-> FALSE], <<>>, <<>>)

\* _diagnose_income without income rows
IncomeNoData ==
    Outcome([score |-> 0, status |-> "critical", data_available |-> FALSE],
            <<GapIncome>>, <<>>)

\* _diagnose_income
DiagnoseIncome(tx) ==
    LET df == OfType(tx, "income")
    IN  IF Len(df) = 0 THEN IncomeNoData
        ELSE
        LET monthly_income == MonthlySums(df)
            avg_monthly_income == Mean(monthly_income)
            income_stability ==
                IF Gt(avg_monthly_income, Num(0))
                THEN (IF Len(monthly_income) < 2 THEN OneMinusNaN
                      ELSE OneMinusRoot(CVSquared(monthly_income)))
                ELSE OneMinusRoot(Num(1))
            sums == {DescriptionSum(df, d) : d \in Descriptions(df)}
            primary_income == CHOOSE x \in sums : \A y \in sums : y <= x
            total == AmountSum(df)
            primary_dependency ==
                IF total > 0 THEN Frac(primary_income, total) ELSE Num(1)
            amountPoints ==
                IF Gt(avg_monthly_income, Num(3000)) THEN 30
                ELSE IF Gt(avg_monthly_income, Num(2000)) THEN 20
                ELSE IF Gt(avg_monthly_income, Num(1000)) THEN 10
                ELSE 0
            stabilityPoints ==
                IF OneMinusGt(income_stability, Frac(8, 10)) THEN 30
                ELSE IF OneMinusGt(income_stability, Frac(6, 10)) THEN 20
                ELSE IF OneMinusGt(income_stability, Frac(4, 10)) THEN 10
                ELSE 0
            dependencyPoints ==
                IF Lt(primary_dependency, Frac(8, 10)) THEN 20
                ELSE IF Lt(primary_dependency, Frac(95, 100)) THEN 10
                ELSE 0
            recent_avg == RecentMean(monthly_income)
            older_avg ==
                IF Len(monthly_income) > 3 THEN OlderMean(monthly_income) ELSE recent_avg
            growthPoints ==
                IF Len(monthly_income) >= 3
                THEN (IF Gt(recent_avg, FMul(older_avg, Frac(11, 10))) THEN 20
                      ELSE IF Gt(recent_avg, older_avg) THEN 10
                      ELSE 0)
                ELSE 0
            score == amountPoints + stabilityPoints + dependencyPoints + growthPoints
        IN  Outcome([score |-> Min(score, 100),
                     status |-> Ladder(score),
                     avg_monthly_income |-> avg_monthly_income,
                     stability |-> income_stability,
                     sources |-> Cardinality(Descriptions(df)),
                     primary_dependency |-> primary_dependency,
                     data_available |-> TRUE],
                    <<>>, <<>>)

EssentialKeywords ==
    <<"grocery", "groceries", "rent", "mortgage", "utilities", "insurance", "health",
      "medical">>

\* _diagnose_expenses without expense rows
ExpensesNoData ==
    Outcome([score |-> 50, status |-> "unknown", data_available |-> FALSE], <<>>, <<>>)

\* _diagnose_expenses
DiagnoseExpenses(tx) ==
    LET df == OfType(tx, "expense")
    IN  IF Len(df) = 0 THEN ExpensesNoData
        ELSE
        LET monthly_expenses == MonthlySums(df)
            avg_monthly_expenses == Mean(monthly_expenses)
            essential == {c \in Categories(df) : ContainsAny(c, EssentialKeywords)}
            essential_spending ==
                SumSeq([i \in 1..Len(df) |->
                    IF df[i].category \in essential THEN df[i].amount.v ELSE 0])
            total_spending == AmountSum(df)
            essential_ratio ==
                IF total_spending > 0 THEN Frac(essential_spending, total_spending)
                ELSE Num(0)
            avg_income == AvgMonthlyIncome(tx, 0)
            expense_ratio ==
                IF Gt(avg_income, Num(0)) THEN FDiv(avg_monthly_expenses, avg_income)
                ELSE Num(1)
            high == ~Lt(expense_ratio, Frac(9, 10))
            ratioPoints ==
                IF Lt(expense_ratio, Frac(5, 10)) THEN 40
                ELSE IF Lt(expense_ratio, Frac(7, 10)) THEN 30
                ELSE IF Lt(expense_ratio, Frac(9, 10)) THEN 20
                ELSE 0
            essentialPoints ==
                IF Gt(essential_ratio, Frac(5, 10)) /\ Lt(essential_ratio, Frac(8, 10))
                THEN 30
                ELSE IF Ge(essential_ratio, Frac(8, 10)) THEN 20
                ELSE 10
            recent == RecentMean(monthly_expenses)
            older ==
                IF Len(monthly_expenses) > 3 THEN OlderMean(monthly_expenses) ELSE recent
            trendPoints ==
                IF Len(monthly_expenses) >= 3
                THEN (IF Lt(recent, FMul(older, Frac(11, 10))) THEN 30
                      ELSE IF Lt(recent, FMul(older, Frac(12, 10))) THEN 15
                      ELSE 0)
                ELSE 0
            score == ratioPoints + essentialPoints + trendPoints
        IN  Outcome([score |-> score,
                     status |-> Ladder(score),
                     avg_monthly_expenses |-> avg_monthly_expenses,
                     expense_ratio |-> expense_ratio,
                     essential_ratio |-> essential_ratio,
                     data_available |-> TRUE],
                    <<>>,
                    IF high
                    THEN <<"High expense ratio: "
                           \o FormatF(FMul(expense_ratio, Num(100)), 0)
                           \o "% of income">>
                    ELSE <<>>)

DebtKeywords == <<"loan", "credit card", "mortgage", "debt", "financing", "installment">>

\* no match is taken to mean that there is no debt
DebtNoDataResolved ==
    Outcome([score |-> 100, status |-> "excellent", data_available |-> TRUE], <<>>, <<>>)

\* _diagnose_debt without a description that matches a debt keyword
DebtNoData ==
    Outcome([score |-> 70, status |-> "assumed_no_debt", data_available |-> FALSE],
            <<GapDebt>>, <<>>)

\* _diagnose_debt with every threshold of the ratio let in: >= for >
DiagnoseDebtInclusive(tx) ==
    LET debt_payments == Matching(tx, DebtKeywords)
    IN  IF Len(debt_payments) = 0 THEN DebtNoData
        ELSE
        LET avg_monthly_debt == Mean(MonthlySums(debt_payments))
            avg_income == AvgMonthlyIncome(tx, 1)
            debt_to_income ==
                IF Gt(avg_income, Num(0)) THEN FDiv(avg_monthly_debt, avg_income)
                ELSE Num(0)
            pct == FormatF(FMul(debt_to_income, Num(100)), 0)
            score ==
                IF Ge(debt_to_income, Frac(50, 100)) THEN 20
                ELSE IF Ge(debt_to_income, Frac(36, 100)) THEN 40
                ELSE IF Ge(debt_to_income, Frac(28, 100)) THEN 60
                ELSE IF Ge(debt_to_income, Frac(15, 100)) THEN 80
                ELSE 100
        IN  Outcome([score |-> score,
                     status |-> Ladder(score),
                     avg_monthly_debt |-> avg_monthly_debt,
                     debt_to_income |-> debt_to_income,
                     debt_types |-> Cardinality(Descriptions(debt_payments)),
                     data_available |-> TRUE],
                    <<>>,
                    IF Ge(debt_to_income, Frac(50, 100))
                    THEN <<"Very high debt-to-income ratio: " \o pct \o "%">>
                    ELSE IF Ge(debt_to_income, Frac(36, 100))
                    THEN <<"High debt-to-income ratio: " \o pct \o "%">>
                    ELSE <<>>)

\* _diagnose_debt
DiagnoseDebt(tx) ==
    LET debt_payments == Matching(tx, DebtKeywords)
    IN  IF Len(debt_payments) = 0 THEN DebtNoData
        ELSE
        LET avg_monthly_debt == Mean(MonthlySums(debt_payments))
            avg_income == AvgMonthlyIncome(tx, 1)
            debt_to_income ==
                IF Gt(avg_income, Num(0)) THEN FDiv(avg_monthly_debt, avg_income)
                ELSE Num(0)
            pct == FormatF(FMul(debt_to_income, Num(100)), 0)
            score ==
                IF Gt(debt_to_income, Frac(50, 100)) THEN 20
                ELSE IF Gt(debt_to_income, Frac(36, 100)) THEN 40
                ELSE IF Gt(debt_to_income, Frac(28, 100)) THEN 60
                ELSE IF Gt(debt_to_income, Frac(15, 100)) THEN 80
                ELSE 100
        IN  Outcome([score |-> score,
                     status |-> Ladder(score),
                     avg_monthly_debt |-> avg_monthly_debt,
                     debt_to_income |-> debt_to_income,
                     debt_types |-> Cardinality(Descriptions(debt_payments)),
                     data_available |-> TRUE],
                    <<>>,
                    IF Gt(debt_to_income, Frac(50, 100))
                    THEN <<"Very high debt-to-income ratio: " \o pct \o "%">>
                    ELSE IF Gt(debt_to_income, Frac(36, 100))
                    THEN <<"High debt-to-income ratio: " \o pct \o "%">>
                    ELSE <<>>)

\* the average of groupby('month')['amount'].sum() over the expense rows, or
\* `otherwise` when there is no expense row
AvgMonthlyExpenses(tx, otherwise) ==
    LET expense_df == OfType(tx, "expense")
    IN  IF Len(expense_df) > 0 THEN Mean(MonthlySums(expense_df)) ELSE Num(otherwise)

InvestmentKeywords ==
    <<"invest", "stock", "bond", "etf", "mutual fund", "dividend", "capital gain">>

\* _diagnose_assets
DiagnoseAssets(tx, accts) ==
    LET total_balance ==
            IF Len(accts) > 0 THEN SumSeq([i \in 1..Len(accts) |-> accts[i].balance])
            ELSE 0
        investments == Matching(tx, InvestmentKeywords)
        has_investments == Len(investments) > 0
        investment_rate ==
            IF Len(tx) > 0 THEN Frac(Len(investments), Len(tx)) ELSE Num(0)
        avg_income == AvgMonthlyIncome(tx, 1)
        avg_expenses == AvgMonthlyExpenses(tx, 1)
        emergency_fund_months ==
            IF Gt(avg_expenses, Num(0)) THEN FDiv(Num(total_balance), avg_expenses)
            ELSE Num(0)
        fundPoints ==
            IF Ge(emergency_fund_months, Num(6)) THEN 40
            ELSE IF Ge(emergency_fund_months, Num(3)) THEN 30
            ELSE IF Ge(emergency_fund_months, Num(1)) THEN 15
            ELSE 0
        investmentPoints ==
            IF has_investments
            THEN 30 + (IF Gt(investment_rate, Frac(5, 100)) THEN 20
                       ELSE IF Gt(investment_rate, Frac(2, 100)) THEN 10
                       ELSE 0)
            ELSE 10
        asset_to_income ==
            IF Gt(avg_income, Num(0))
            THEN FDiv(Num(total_balance), FMul(avg_income, Num(12)))
            ELSE Num(0)
        assetPoints == IF Gt(asset_to_income, Num(1)) THEN 10 ELSE 0
        score == fundPoints + investmentPoints + assetPoints
    IN  Outcome([score |-> score,
                 status |-> Ladder(score),
                 total_balance |-> Num(total_balance),
                 emergency_fund_months |-> emergency_fund_months,
                 has_investments |-> has_investments,
                 investment_activity |-> FMul(investment_rate, Num(100)),
                 data_available |-> TRUE],
                IF has_investments THEN <<>> ELSE <<GapInvestment>>,
                IF Ge(emergency_fund_months, Num(1)) THEN <<>>
                ELSE <<"Insufficient emergency fund: only "
                       \o FormatF(emergency_fund_months, 1)
                       \o " months of expenses">>)

InsuranceKeywords == <<"insurance", "premium", "policy", "coverage", "insurer">>

\* _diagnose_insurance without a description that matches an insurance keyword
InsuranceNoData ==
    Outcome([score |-> 30, status |-> "unknown", data_available |-> FALSE,
             needs_questionnaire |-> TRUE],
            <<GapInsurance>>, <<>>)

\* _diagnose_insurance
DiagnoseInsurance(tx) ==
    LET insurance_payments == Matching(tx, InsuranceKeywords)
    IN  IF Len(insurance_payments) = 0 THEN InsuranceNoData
        ELSE
        LET insurance_types == Cardinality(Descriptions(insurance_payments))
            monthly_premium == Mean(MonthlySums(insurance_payments))
            avg_income == AvgMonthlyIncome(tx, 1)
            insurance_ratio ==
                IF Gt(avg_income, Num(0)) THEN FDiv(monthly_premium, avg_income)
                ELSE Num(0)
            score ==
                50 + (IF insurance_types >= 2 THEN 20 ELSE 0)
                   + (IF Gt(insurance_ratio, Frac(2, 100))
                         /\ Lt(insurance_ratio, Frac(15, 100)) THEN 30 ELSE 0)
        IN  Outcome([score |-> score,
                     status |-> "partial",
                     monthly_premium |-> monthly_premium,
                     insurance_types_detected |-> insurance_types,
                     insurance_ratio |-> insurance_ratio,
                     data_available |-> TRUE,
                     needs_questionnaire |-> TRUE],
                    <<>>, <<>>)

\* monthly expenses - monthly income: the difference taken the wrong way round
MonthlySavingsReversed(tx) ==
    LET income_df == OfType(tx, "income")
        expense_df == OfType(tx, "expense")
        ms == SortedSeq(MonthsOf(income_df) \cup MonthsOf(expense_df))
    IN  [i \in 1..Len(ms) |->
            IF ms[i] \in MonthsOf(income_df) /\ ms[i] \in MonthsOf(expense_df)
            THEN Num(MonthSum(expense_df, ms[i]) - MonthSum(income_df, ms[i]))
            ELSE NaN]

\* monthly income - monthly expenses, the two series aligned on the month: a
\* month present in only one of them holds NaN
MonthlySavings(tx) ==
    LET income_df == OfType(tx, "income")
        expense_df == OfType(tx, "expense")
        ms == SortedSeq(MonthsOf(income_df) \cup MonthsOf(expense_df))
    IN  [i \in 1..Len(ms) |->
            IF ms[i] \in MonthsOf(income_df) /\ ms[i] \in MonthsOf(expense_df)
            THEN Num(MonthSum(income_df, ms[i]) - MonthSum(expense_df, ms[i]))
            ELSE NaN]

\* the values of a series that are not NaN (mean, std and sum skip NaN)
NotNaN(xs) ==
    LET ok(x) == ~x.nan
        kept == SelectSeq(xs, ok)
    IN  [i \in 1..Len(kept) |-> kept[i].n]

\* _diagnose_goals without goals in the user profile
GoalsNoData ==
    Outcome([score |-> 40, status |-> "undefined", data_available |-> FALSE,
             needs_questionnaire |-> TRUE],
            <<GapGoals>>, <<>>)

\* _diagnose_goals
DiagnoseGoals(tx, profile) ==
    LET user_goals == DictGet(profile, "goals", <<>>)
    IN  IF Len(user_goals) = 0 THEN GoalsNoData
        ELSE
        LET avg_savings == Mean(NotNaN(MonthlySavings(tx)))
            savingsPoints ==
                IF Len(OfType(tx, "income")) > 0 /\ Len(OfType(tx, "expense")) > 0
                   /\ Gt(avg_savings, Num(0))
                THEN 40 ELSE 0
        IN  Outcome([score |-> 60 + savingsPoints,
                     status |-> "defined",
                     goals_count |-> Len(user_goals),
                     data_available |-> TRUE,
                     needs_questionnaire |-> FALSE],
                    <<>>, <<>>)

\* _diagnose_budgeting without income rows or without expense rows
BudgetingNoData ==
    Outcome([score |-> 50, status |-> "unknown", data_available |-> FALSE], <<>>, <<>>)

\* _diagnose_budgeting
DiagnoseBudgeting(tx) ==
    LET income_df == OfType(tx, "income")
        expense_df == OfType(tx, "expense")
    IN  IF Len(income_df) = 0 \/ Len(expense_df) = 0 THEN BudgetingNoData
        ELSE
        LET monthly_income == MonthlySums(income_df)
            monthly_savings == MonthlySavings(tx)
            saved == NotNaN(monthly_savings)
            mean_savings == Mean(saved)
            mean_income == Mean(monthly_income)
            avg_savings_rate ==
                IF Gt(mean_income, Num(0))
                THEN FMul(FDiv(mean_savings, mean_income), Num(100))
                ELSE Num(0)
            \* max(0, min(1, 1 - std / mean)): min(1, NaN) is 1
            savings_consistency ==
                IF ~Ne(mean_savings, Num(0)) THEN OneMinusRoot(Num(1))
                ELSE IF mean_savings.nan \/ Len(saved) < 2 THEN OneMinusRoot(Num(0))
                ELSE IF Lt(mean_savings, Num(0)) THEN OneMinusRoot(Num(0))
                ELSE IF Ge(CVSquared(saved), Num(1)) THEN OneMinusRoot(Num(1))
                ELSE OneMinusRoot(CVSquared(saved))
            overspending_months == Cardinality({i \in 1..Len(saved) : saved[i] < 0})
            total_months == Len(monthly_savings)
            ratePoints ==
                IF Ge(avg_savings_rate, Num(20)) THEN 40
                ELSE IF Ge(avg_savings_rate, Num(15)) THEN 30
                ELSE IF Ge(avg_savings_rate, Num(10)) THEN 20
                ELSE IF Gt(avg_savings_rate, Num(0)) THEN 10
                ELSE 0
            overspendingPoints ==
                IF overspending_months = 0 THEN 30
                ELSE IF Le(Num(overspending_months), FMul(Num(total_months), Frac(2, 10)))
                THEN 20
                ELSE IF Le(Num(overspending_months), FMul(Num(total_months), Frac(4, 10)))
                THEN 10
                ELSE 0
            consistencyPoints ==
                IF OneMinusGt(savings_consistency, Frac(7, 10)) THEN 30
                ELSE IF OneMinusGt(savings_consistency, Frac(5, 10)) THEN 20
                ELSE IF OneMinusGt(savings_consistency, Frac(3, 10)) THEN 10
                ELSE 0
            score == ratePoints + overspendingPoints + consistencyPoints
        IN  Outcome([score |-> score,
                     status |-> Ladder(score),
                     avg_savings_rate |-> avg_savings_rate,
                     overspending_months |-> overspending_months,
                     savings_consistency |-> savings_consistency,
                     data_available |-> TRUE],
                    <<>>,
                    (IF Gt(avg_savings_rate, Num(0)) THEN <<>>
                     ELSE <<"Negative savings rate: " \o FormatF(avg_savings_rate, 1)
                            \o "%">>)
                    \o
                    (IF overspending_months = 0
                        \/ Le(Num(overspending_months),
                              FMul(Num(total_months), Frac(4, 10)))
                     THEN <<>>
                     ELSE <<"Frequent overspending: " \o NatToStr(overspending_months)
                            \o "/" \o NatToStr(total_months) \o " months">>))

CreditKeywords == <<"credit card", "cc payment", "visa", "mastercard", "amex">>

\* _diagnose_credit without a description that matches a credit keyword
CreditNoData ==
    Outcome([score |-> 60, status |-> "unknown", data_available |-> FALSE,
             needs_questionnaire |-> TRUE],
            <<GapCredit>>, <<>>)

\* _diagnose_credit
DiagnoseCredit(tx) ==
    LET credit_txns == Matching(tx, CreditKeywords)
    IN  IF Len(credit_txns) = 0 THEN CreditNoData
        ELSE
        LET monthly_cc_payments == MonthlySums(credit_txns)
            avg_cc_payment == Mean(monthly_cc_payments)
            avg_income == AvgMonthlyIncome(tx, 1)
            cc_to_income ==
                IF Gt(avg_income, Num(0)) THEN FDiv(avg_cc_payment, avg_income)
                ELSE Num(0)
            usagePoints ==
                IF Lt(cc_to_income, Frac(1, 10)) THEN 30
                ELSE IF Lt(cc_to_income, Frac(2, 10)) THEN 20
                ELSE IF Lt(cc_to_income, Frac(3, 10)) THEN 10
                ELSE 0
            score == 50 + usagePoints + (IF Len(monthly_cc_payments) >= 3 THEN 20 ELSE 0)
        IN  Outcome([score |-> score,
                     status |-> "fair",
                     avg_monthly_cc_payment |-> avg_cc_payment,
                     cc_to_income_ratio |-> cc_to_income,
                     data_available |-> TRUE,
                     needs_questionnaire |-> TRUE],
                    <<>>,
                    IF Lt(cc_to_income, Frac(3, 10)) THEN <<>>
                    ELSE <<"High credit card usage: "
                           \o FormatF(FMul(cc_to_income, Num(100)), 0)
                           \o "% of income">>)

TaxKeywords == <<"tax", "irs", "hmrc", "revenue", "withholding", "refund">>

\* _diagnose_taxes without a description that matches a tax keyword
TaxesNoData ==
    Outcome([score |-> 60, status |-> "unknown", data_available |-> FALSE,
             needs_questionnaire |-> TRUE],
            <<GapTax>>, <<>>)

\* _diagnose_taxes
DiagnoseTaxes(tx) ==
    LET tax_txns == Matching(tx, TaxKeywords)
    IN  IF Len(tax_txns) = 0 THEN TaxesNoData
        ELSE
        LET tax_payments == OfType(tax_txns, "expense")
            tax_refunds == OfType(tax_txns, "income")
            total_tax_paid == IF Len(tax_payments) > 0 THEN AmountSum(tax_payments) ELSE 0
            total_refunds == IF Len(tax_refunds) > 0 THEN AmountSum(tax_refunds) ELSE 0
            income_df == OfType(tx, "income")
            total_income == IF Len(income_df) > 0 THEN AmountSum(income_df) ELSE 1
            effective_tax_rate ==
                IF total_income > 0 THEN Frac(total_tax_paid - total_refunds, total_income)
                ELSE Num(0)
            score ==
                70 + (IF Len(tax_payments) > 0 THEN 20 ELSE 0)
                   + (IF Gt(effective_tax_rate, Num(0))
                         /\ Lt(effective_tax_rate, Frac(4, 10)) THEN 10 ELSE 0)
        IN  Outcome([score |-> score,
                     status |-> "compliant",
                     total_tax_paid |-> Num(total_tax_paid),
                     total_refunds |-> Num(total_refunds),
                     effective_tax_rate |-> FMul(effective_tax_rate, Num(100)),
                     data_available |-> TRUE],
                    <<>>, <<>>)

\* _diagnose_behavior
DiagnoseBehavior(tx) ==
    LET monthly_expenses == MonthlySums(OfType(tx, "expense"))
        expense_volatility ==
            IF Len(monthly_expenses) > 0 /\ Gt(Mean(monthly_expenses), Num(0))
            THEN StdOverMean(monthly_expenses)
            ELSE Root(Num(0))
        monthly_savings == MonthlySavings(tx)
        saved == NotNaN(monthly_savings)
        positive_savings_months ==
            IF Len(monthly_savings) > 0
            THEN Cardinality({i \in 1..Len(saved) : saved[i] > 0})
            ELSE 0
        total_months == IF Len(monthly_savings) > 0 THEN Len(monthly_savings) ELSE 1
        avg_transactions_per_month ==
            IF total_months > 0 THEN Frac(Len(tx), total_months) ELSE Num(0)
        volatilityPoints ==
            IF RootLt(expense_volatility, Frac(2, 10)) THEN 30
            ELSE IF RootLt(expense_volatility, Frac(4, 10)) THEN 20
            ELSE IF RootLt(expense_volatility, Frac(6, 10)) THEN 10
            ELSE 0
        savings_discipline ==
            IF total_months > 0 THEN Frac(positive_savings_months, total_months)
            ELSE Num(0)
        disciplinePoints ==
            IF Ge(savings_discipline, Frac(9, 10)) THEN 40
            ELSE IF Ge(savings_discipline, Frac(75, 100)) THEN 30
            ELSE IF Ge(savings_discipline, Frac(5, 10)) THEN 20
            ELSE IF Gt(savings_discipline, Num(0)) THEN 10
            ELSE 0
        awarenessPoints ==
            IF Lt(avg_transactions_per_month, Num(100)) THEN 30
            ELSE IF Lt(avg_transactions_per_month, Num(200)) THEN 20
            ELSE IF Lt(avg_transactions_per_month, Num(300)) THEN 10
            ELSE 0
        score == volatilityPoints + disciplinePoints + awarenessPoints
    IN  Outcome([score |-> score,
                 status |-> Ladder(score),
                 expense_volatility |-> expense_volatility,
                 savings_discipline |-> savings_discipline,
                 avg_transactions_per_month |->
                     avg_transactions_per_month.n \div avg_transactions_per_month.d,
                 data_available |-> TRUE],
                <<>>, <<>>)

(***************************************************************************)
(* Aggregation, recommendations, questionnaire.                            *)
(***************************************************************************)
\* a key of a result dict, or the default: data.get(key, default)
Field(data, key, default) == IF key \in DOMAIN data THEN data[key] ELSE default

\* the weights of _calculate_overall_score, in hundredths, in dict order
Weights == <<
    [category |-> "income",             weight |-> 15],
    [category |-> "expenses",           weight |-> 10],
    [category |-> "debt_liabilities",   weight |-> 15],
    [category |-> "assets_investments", weight |-> 15],
    [category |-> "insurance",          weight |-> 5],
    [category |-> "financial_goals",    weight |-> 5],
    [category |-> "budgeting",          weight |-> 15],
    [category |-> "credit_health",      weight |-> 10],
    [category |-> "tax_situation",      weight |-> 5],
    [category |-> "financial_behavior", weight |-> 5]
>>

\* self.diagnostics.get(category, {}).get('score', 0)
CategoryScore(diag, category) ==
    IF OHas(diag, category) THEN Field(OGet(diag, category), "score", 0) ELSE 0

\* round(x, 1)
Round1(x) == Frac(RoundHalfEven(FMul(x, Num(10))), 10)

\* the scores are added up without their weights
OverallScoreUnweighted(diag) ==
    Round1(Num(SumSeq([i \in 1..Len(Weights) |->
                  CategoryScore(diag, Weights[i].category)])))

\* the categories without an entry are skipped and the weights of the others
\* are scaled up to 1
OverallScoreRenormalized(diag) ==
    LET present == {i \in 1..Len(Weights) : OHas(diag, Weights[i].category)}
        weight == SumSeq([i \in 1..Len(Weights) |->
                      IF i \in present THEN Weights[i].weight ELSE 0])
        total == SumSeq([i \in 1..Len(Weights) |->
                     CategoryScore(diag, Weights[i].category) * Weights[i].weight])
    IN  IF weight = 0 THEN Num(0) ELSE Round1(Frac(total, weight))

\* _calculate_overall_score: the value stored in self.overall_score
OverallScore(diag) ==
    LET total_score ==
            Frac(SumSeq([i \in 1..Len(Weights) |->
                     CategoryScore(diag, Weights[i].category) * Weights[i].weight]),
                 100)
    IN  Round1(total_score)

\* the bands are exclusive on their lower edge
GetGradeExclusive(score) ==
    IF Gt(score, Num(90)) THEN "A+"
    ELSE IF Gt(score, Num(85)) THEN "A"
    ELSE IF Gt(score, Num(80)) THEN "A-"
    ELSE IF Gt(score, Num(75)) THEN "B+"
    ELSE IF Gt(score, Num(70)) THEN "B"
    ELSE IF Gt(score, Num(65)) THEN "B-"
    ELSE IF Gt(score, Num(60)) THEN "C+"
    ELSE IF Gt(score, Num(55)) THEN "C"
    ELSE IF Gt(score, Num(50)) THEN "C-"
    ELSE IF Gt(score, Num(45)) THEN "D+"
    ELSE IF Gt(score, Num(40)) THEN "D"
    ELSE "F"

\* _get_grade
GetGrade(score) ==
    IF Ge(score, Num(90)) THEN "A+"
    ELSE IF Ge(score, Num(85)) THEN "A"
    ELSE IF Ge(score, Num(80)) THEN "A-"
    ELSE IF Ge(score, Num(75)) THEN "B+"
    ELSE IF Ge(score, Num(70)) THEN "B"
    ELSE IF Ge(score, Num(65)) THEN "B-"
    ELSE IF Ge(score, Num(60)) THEN "C+"
    ELSE IF Ge(score, Num(55)) THEN "C"
    ELSE IF Ge(score, Num(50)) THEN "C-"
    ELSE IF Ge(score, Num(45)) THEN "D+"
    ELSE IF Ge(score, Num(40)) THEN "D"
    ELSE "F"

\* a generator that marks every item 'high'
RecommendationHigh(category, priority, action, impact) ==
    [category |-> category, priority |-> "high", action |-> action, impact |-> impact]

Recommendation(category, priority, action, impact) ==
    [category |-> category, priority |-> priority, action |-> action, impact |-> impact]

\* the items one entry of self.diagnostics adds in _generate_recommendations
RecommendationsFor(category, data) ==
    (IF category = "income" /\ Field(data, "score", 0) < 60
     THEN <<Recommendation("Income", "high",
              "Diversify income sources or seek opportunities for income growth",
              "Increase financial stability and growth potential")>>
     ELSE <<>>)
    \o
    (IF category = "expenses" /\ Gt(Field(data, "expense_ratio", Num(0)), Frac(9, 10))
     THEN <<Recommendation("Expenses", "high",
              "Reduce discretionary spending - aim for 70-80% expense-to-income ratio",
              "Could save €"
              \o FormatF(FMul(Field(data, "avg_monthly_expenses", Num(0)), Frac(2, 10)), 2)
              \o "/month")>>
     ELSE <<>>)
    \o
    (IF category = "debt_liabilities"
        /\ Gt(Field(data, "debt_to_income", Num(0)), Frac(36, 100))
     THEN <<Recommendation("Debt", "critical",
              "Create aggressive debt paydown plan - consider debt consolidation",
              "Improve credit score and free up monthly cash flow")>>
     ELSE <<>>)
    \o
    (IF category = "assets_investments"
        /\ Lt(Field(data, "emergency_fund_months", Num(0)), Num(3))
     THEN <<Recommendation("Emergency Fund", "high",
              "Build emergency fund to cover 3-6 months of expenses",
              "Provide financial security against unexpected events")>>
     ELSE <<>>)
    \o
    (IF category = "budgeting" /\ Lt(Field(data, "avg_savings_rate", Num(0)), Num(10))
     THEN <<Recommendation("Savings", "high",
              "Aim to save at least 15-20% of income monthly",
              "Build wealth and achieve financial goals faster")>>
     ELSE <<>>)

RECURSIVE RecommendationsFrom(_, _)
RecommendationsFrom(diag, i) ==
    IF i > Len(diag) THEN <<>>
    ELSE RecommendationsFor(diag[i].key, diag[i].value) \o RecommendationsFrom(diag, i + 1)

\* _generate_recommendations: self.diagnostics.items() in insertion order
GenerateRecommendations(diag) == RecommendationsFrom(diag, 1)

QuestionInsurance ==
    [id |-> "insurance_coverage", category |-> "Insurance",
     question |-> "What types of insurance coverage do you currently have?",
     type |-> "multiple_choice",
     options |-> <<"Health", "Life", "Disability", "Home/Renters", "Auto", "None">>,
     required |-> TRUE]
QuestionGoals ==
    [id |-> "financial_goals", category |-> "Goals",
     question |-> "What are your top 3 financial goals for the next 5 years?",
     type |-> "text", required |-> TRUE]
QuestionRiskTolerance ==
    [id |-> "risk_tolerance", category |-> "Investments",
     question |-> "How comfortable are you with investment risk?",
     type |-> "single_choice",
     options |-> <<"Very Conservative", "Conservative", "Moderate", "Aggressive",
                   "Very Aggressive">>,
     required |-> TRUE]
QuestionDebt ==
    [id |-> "debt_confirmation", category |-> "Debt",
     question |-> "Do you currently have any outstanding loans or credit card debt?",
     type |-> "yes_no", required |-> TRUE]
QuestionCredit ==
    [id |-> "credit_score", category |-> "Credit",
     question |-> "What is your approximate credit score?",
     type |-> "single_choice",
     options |-> <<"Excellent (750+)", "Good (700-749)", "Fair (650-699)",
                   "Poor (600-649)", "Very Poor (<600)", "Unknown">>,
     required |-> FALSE]
QuestionGoalsFallback ==
    [id |-> "financial_goals", category |-> "Goals",
     question |-> "What are your top 3 financial goals?",
     type |-> "text", required |-> TRUE]

\* the questions one gap adds in _generate_questionnaire
QuestionsFor(gap) ==
    LET g == Lower(gap)
    IN  (IF Contains(g, "insurance") THEN <<QuestionInsurance>> ELSE <<>>)
        \o (IF Contains(g, "goals") \/ Contains(g, "goal")
            THEN <<QuestionGoals, QuestionRiskTolerance>> ELSE <<>>)
        \o (IF Contains(g, "debt") /\ Contains(g, "no debt")
            THEN <<QuestionDebt>> ELSE <<>>)
        \o (IF Contains(g, "credit") THEN <<QuestionCredit>> ELSE <<>>)

RECURSIVE QuestionsFrom(_, _)
QuestionsFrom(gapList, i) ==
    IF i > Len(gapList) THEN <<>>
    ELSE QuestionsFor(gapList[i]) \o QuestionsFrom(gapList, i + 1)

\* a generator whose fallback does not look for a goals question already added
GenerateQuestionnaireAlways(gapList, profile) ==
    IF Len(DictGet(profile, "goals", <<>>)) = 0
    THEN Append(QuestionsFrom(gapList, 1), QuestionGoalsFallback)
    ELSE QuestionsFrom(gapList, 1)

\* _generate_questionnaire
GenerateQuestionnaire(gapList, profile) ==
    LET questions == QuestionsFrom(gapList, 1)
    IN  IF Len(DictGet(profile, "goals", <<>>)) = 0
           /\ ~\E i \in 1..Len(questions) : questions[i].id = "financial_goals"
        THEN Append(questions, QuestionGoalsFallback)
        ELSE questions

(***************************************************************************)
(* The steps of run_full_diagnostic after _prepare_data.                   *)
(***************************************************************************)
\* the lists are class attributes, shared by every engine
AppendFindingsShared(lists, e, found) == [x \in Engines |-> lists[x] \o found]

\* the findings are inserted at the front of the list
AppendFindingsFront(lists, e, found) == [lists EXCEPT ![e] = found \o @]

\* self.gaps.append / self.risks.append: each engine appends to its own list
AppendFindings(lists, e, found) == [lists EXCEPT ![e] = @ \o found]

\* self.diagnostics[key] = <classifier>(): the result is stored and the
\* classifier's gaps and risks are appended
Classify(e, label, next, key, outcome) ==
    /\ pc[e] = label
    /\ diagnostics' = [diagnostics EXCEPT ![e] = OSet(@, key, outcome.result)]
    /\ gaps' = AppendFindings(gaps, e, outcome.gaps)
    /\ risks' = AppendFindings(risks, e, outcome.risks)
    /\ Goto(e, next)
    /\ UNCHANGED <<input, transactions, accounts, user_profile, overall_score,
                   recommendations, questionnaire, returned,
                   arg, out, StoreVars>>

Income(e) ==
    Classify(e, "income", "expenses", "income", DiagnoseIncome(transactions[e]))
Expenses(e) ==
    Classify(e, "expenses", "debt", "expenses", DiagnoseExpenses(transactions[e]))
Debt(e) ==
    Classify(e, "debt", "assets", "debt_liabilities", DiagnoseDebt(transactions[e]))
Assets(e) ==
    Classify(e, "assets", "insurance", "assets_investments",
             DiagnoseAssets(transactions[e], accounts[e]))
Insurance(e) ==
    Classify(e, "insurance", "goals", "insurance", DiagnoseInsurance(transactions[e]))
Goals(e) ==
    Classify(e, "goals", "budgeting", "financial_goals",
             DiagnoseGoals(transactions[e], user_profile[e]))
Budgeting(e) ==
    Classify(e, "budgeting", "credit", "budgeting", DiagnoseBudgeting(transactions[e]))
Credit(e) ==
    Classify(e, "credit", "taxes", "credit_health", DiagnoseCredit(transactions[e]))
Taxes(e) ==
    Classify(e, "taxes", "behavior", "tax_situation", DiagnoseTaxes(transactions[e]))
Behavior(e) ==
    Classify(e, "behavior", "overall", "financial_behavior",
             DiagnoseBehavior(transactions[e]))

\* self._calculate_overall_score()
CalculateOverallScore(e) ==
    /\ pc[e] = "overall"
    /\ overall_score' = [overall_score EXCEPT ![e] = OverallScore(diagnostics[e])]
    /\ Goto(e, "recommendations")
    /\ UNCHANGED <<input, transactions, accounts, user_profile, diagnostics, gaps,
                   risks, recommendations, questionnaire, returned,
                   arg, out, StoreVars>>

\* recommendations = self._generate_recommendations()
Recommend(e) ==
    /\ pc[e] = "recommendations"
    /\ recommendations' =
           [recommendations EXCEPT ![e] = GenerateRecommendations(diagnostics[e])]
    /\ Goto(e, "questionnaire")
    /\ UNCHANGED <<input, transactions, accounts, user_profile, diagnostics, gaps,
                   risks, overall_score, questionnaire, returned,
                   arg, out, StoreVars>>

\* questionnaire = self._generate_questionnaire()
Questionnaire(e) ==
    /\ pc[e] = "questionnaire"
    /\ questionnaire' =
           [questionnaire EXCEPT ![e] = GenerateQuestionnaire(gaps[e], user_profile[e])]
    /\ Goto(e, "return")
    /\ UNCHANGED <<input, transactions, accounts, user_profile, diagnostics, gaps,
                   risks, overall_score, recommendations, returned,
                   arg, out, StoreVars>>

\* the result reports the lists of one collector, that of the engine built last
ResultOfLast(e) ==
    [diagnostics |-> diagnostics[e],
     overall_score |-> overall_score[e],
     grade |-> GetGrade(overall_score[e]),
     gaps |-> gaps["e2"],
     risks |-> risks["e2"],
     recommendations |-> recommendations[e],
     questionnaire |-> questionnaire[e]]

\* the dict run_full_diagnostic returns, as it reads when it is returned
Result(e) ==
    [diagnostics |-> diagnostics[e],
     overall_score |-> overall_score[e],
     grade |-> GetGrade(overall_score[e]),
     gaps |-> gaps[e],
     risks |-> risks[e],
     recommendations |-> recommendations[e],
     questionnaire |-> questionnaire[e]]

Return(e) ==
    /\ pc[e] = "return"
    /\ returned' = [returned EXCEPT ![e] = Append(@, Result(e))]
    /\ Goto(e, "idle")
    /\ UNCHANGED <<input, transactions, accounts, user_profile, diagnostics, gaps,
                   risks, overall_score, recommendations, questionnaire,
                   arg, out, StoreVars>>

Step(e) ==
    \/ PrepareData(e)
    \/ Income(e)
    \/ Expenses(e)
    \/ Debt(e)
    \/ Assets(e)
    \/ Insurance(e)
    \/ Goals(e)
    \/ Budgeting(e)
    \/ Credit(e)
    \/ Taxes(e)
    \/ Behavior(e)
    \/ CalculateOverallScore(e)
    \/ Recommend(e)
    \/ Questionnaire(e)
    \/ Return(e)

\* one engine, called up to MaxRuns times
Next == \E e \in Engines : Call(e) \/ Step(e)

Spec == Init /\ [][Next]_vars

\* the first call of run_full_diagnostic on an engine
FirstCall(e) == Len(returned[e]) = 0 /\ Call(e)

\* two engines, each called once, their steps interleaved in any order
ConcNext == \E e \in Engines : FirstCall(e) \/ Step(e)

ConcSpec == ConcInit /\ [][ConcNext]_vars

DirtyRows == 6

\* one engine, built on a table of the last n rows of the catalogue: the rows
\* with an unparsable date, an unparsable amount, a capitalised type and a
\* negative amount are among them
DirtyInit ==
    /\ \E S \in SUBSET ((Len(Catalogue) - DirtyRows + 1)..Len(Catalogue)) :
           Construct({"e1"},
                     [e \in Engines |->
                         IF e = "e1"
                         THEN [transactions |-> RowsOf(S, 1),
                               accounts |-> <<[type |-> "savings", balance |-> 2000]>>,
                               user_profile |-> NoneProfile]
                         ELSE NoInput])
    /\ arg = NoCall
    /\ out = Pending
    /\ NoStore

DirtySpec == DirtyInit /\ [][Next]_vars

(***************************************************************************)
(* _calculate_overall_score and _get_grade called on their own, on any     *)
(* diagnostics dict and any score.                                         *)
(***************************************************************************)
CategoryNames == [i \in 1..Len(Weights) |-> Weights[i].category]

\* what a diagnostics dict drawn for _calculate_overall_score may hold for a
\* category: no entry, an entry with a low score, an entry with the full score
ScoreLevels == {"absent", "low", "full"}
LevelScore(level) == IF level = "low" THEN 35 ELSE 100

RECURSIVE DiagnosticsOf(_, _)
\* the diagnostics dict that holds the categories as `levels` says
DiagnosticsOf(levels, i) ==
    IF i > Len(CategoryNames) THEN <<>>
    ELSE (IF levels[i] = "absent" THEN <<>>
          ELSE <<[key |-> CategoryNames[i],
                  value |-> [score |-> LevelScore(levels[i])]]>>)
         \o DiagnosticsOf(levels, i + 1)

OverallCalls ==
    {[fn |-> "_calculate_overall_score", diagnostics |-> DiagnosticsOf(levels, 1)] :
        levels \in [1..Len(CategoryNames) -> ScoreLevels]}

\* every score of [0, 100] with one decimal
GradeCalls == {[fn |-> "_get_grade", score |-> Frac(t, 10)] : t \in 0..1000}

FnInit ==
    /\ Construct({}, [e \in Engines |-> NoInput])
    /\ arg \in OverallCalls \cup GradeCalls
    /\ out = Pending
    /\ NoStore

EngineVars == <<input, transactions, accounts, user_profile, diagnostics, gaps, risks,
                overall_score, recommendations, questionnaire, pc, returned>>

CallOverallScore ==
    /\ arg.fn = "_calculate_overall_score"
    /\ ~out.done
    /\ out' = Returned(OverallScore(arg.diagnostics))
    /\ UNCHANGED <<EngineVars, arg, StoreVars>>

CallGetGrade ==
    /\ arg.fn = "_get_grade"
    /\ ~out.done
    /\ out' = Returned(GetGrade(arg.score))
    /\ UNCHANGED <<EngineVars, arg, StoreVars>>

FnNext == CallOverallScore \/ CallGetGrade

FnSpec == FnInit /\ [][FnNext]_vars

(***************************************************************************)
(* advanced_analytics.py: detect_recurring_transactions and                *)
(* detect_unusual_spending, functions of a transactions table whose dates  *)
(* are <<year, month, day>> and whose amounts are whole numbers.           *)
(***************************************************************************)
\* the days from 2024-01-01 to the date: the scale on which two dates are
\* subtracted and compared
DayNumber(date) ==
    SumSeq([i \in 1..(date[1] - 2024) |-> IF IsLeap(2023 + i) THEN 366 ELSE 365])
    + SumSeq([m \in 1..(date[2] - 1) |-> DaysInMonth(date[1], m)])
    + date[3] - 1

RECURSIVE DateAfter(_, _, _)
\* the date n days after the first day of month m of year y
DateAfter(y, m, n) ==
    IF n < DaysInMonth(y, m) THEN <<y, m, n + 1>>
    ELSE DateAfter(IF m = 12 THEN y + 1 ELSE y, IF m = 12 THEN 1 ELSE m + 1,
                   n - DaysInMonth(y, m))

\* the days from the first day of year `from` to the first day of year `to`
DaysBetweenYears(from, to) ==
    LET leaps(y) == y \div 4 - y \div 100 + y \div 400
    IN  365 * (to - from) + leaps(to - 1) - leaps(from - 1)

\* date + timedelta(days=n)
AddDays(date, n) ==
    LET RECURSIVE From(_, _)
        \* the date k days after the first day of year y
        From(y, k) ==
            IF k < 0
            THEN From(y - ((-k) \div 365 + 1),
                      k + DaysBetweenYears(y - ((-k) \div 365 + 1), y))
            ELSE IF k >= 366
            THEN From(y + k \div 366, k - DaysBetweenYears(y, y + k \div 366))
            ELSE IF k = 365 /\ ~IsLeap(y) THEN <<y + 1, 1, 1>>
            ELSE DateAfter(y, 1, k)
    IN  From(date[1],
             SumSeq([m \in 1..(date[2] - 1) |-> DaysInMonth(date[1], m)])
                 + date[3] - 1 + n)

\* date.strftime('%Y-%m-%d')
Strftime(date) ==
    PadLeft(NatToStr(date[1]), 4) \o "-" \o PadLeft(NatToStr(date[2]), 2)
        \o "-" \o PadLeft(NatToStr(date[3]), 2)

\* np.std(xs) squared: the variance with ddof = 0
PopVariance(xs) ==
    LET n == Len(xs)
        t == SumSeq(xs)
        q == SumSeq([i \in 1..n |-> xs[i] * xs[i]])
    IN  IF n = 0 THEN NaN ELSE Frac(n * q - t * t, n * n)

\* Series.std() squared: the variance with ddof = 1
SampleVariance(xs) ==
    LET n == Len(xs)
        t == SumSeq(xs)
        q == SumSeq([i \in 1..n |-> xs[i] * xs[i]])
    IN  IF n < 2 THEN NaN ELSE Frac(n * q - t * t, n * (n - 1))

\* int(x) of a float: truncation toward zero
IntOf(x) == IF x.n >= 0 THEN x.n \div x.d ELSE -((-x.n) \div x.d)

RECURSIVE Unique(_)
\* Series.unique(): the values in the order of their first appearance
Unique(xs) ==
    IF xs = <<>> THEN <<>>
    ELSE LET rest == Unique(SubSeq(xs, 1, Len(xs) - 1))
             last == xs[Len(xs)]
         IN  IF \E i \in 1..Len(rest) : rest[i] = last THEN rest
             ELSE Append(rest, last)

\* sorted(items, key=..., reverse=True), keys[i] being the key of items[i]:
\* the greater key first, items of equal keys in their order
SortedDescending(items, keys) ==
    LET n == Len(items)
        ahead(i) == {j \in 1..n : \/ Gt(keys[j], keys[i])
                                  \/ j < i /\ ~Gt(keys[i], keys[j])}
    IN  [r \in 1..n |-> items[CHOOSE i \in 1..n : Cardinality(ahead(i)) = r - 1]]

\* a call that ends in an exception
Raised(exception) == [done |-> TRUE, raised |-> exception]

\* the body of the loop of detect_recurring_transactions for the description
\* desc: the division faults, the description is passed over, or one entry
\* is appended
RecurringPattern(expense_df, desc, min_occurrences, tolerance_days, now) ==
    LET desc_pattern == Lower(SubSeq(desc, 1, Min(Len(desc), 20)))
        hit(r) == Contains(Lower(r.description), desc_pattern)
        desc_txs == SelectSeq(expense_df, hit)
        amounts == [i \in 1..Len(desc_txs) |-> desc_txs[i].amount]
        avg_amount == Mean(amounts)
        var_amount == PopVariance(amounts)
        \* std_amount / avg_amount < 0.1, for an average other than zero
        steady == \/ avg_amount.n < 0
                  \/ Lt(FMul(var_amount, Num(100)), FMul(avg_amount, avg_amount))
        n == Len(desc_txs)
        days == [i \in 1..n |-> DayNumber(desc_txs[i].date)]
        descending == SortedDescending(days, [i \in 1..n |-> Num(days[i])])
        dates == [i \in 1..n |-> descending[n + 1 - i]]
        intervals == [i \in 1..(n - 1) |-> dates[i + 1] - dates[i]]
        avg_interval == Mean(intervals)
        var_interval == PopVariance(intervals)
        frequency ==
            IF Ge(avg_interval, Num(25)) /\ Le(avg_interval, Num(35)) THEN "Monthly"
            ELSE IF Ge(avg_interval, Num(5)) /\ Le(avg_interval, Num(9)) THEN "Weekly"
            ELSE IF Ge(avg_interval, Num(12)) /\ Le(avg_interval, Num(16))
                 THEN "Bi-weekly"
            ELSE "Every " \o NatToStr(IntOf(avg_interval)) \o " days"
        last_date == AddDays(<<2024, 1, 1>>, dates[n])
        next_due == AddDays(last_date, IntOf(avg_interval))
    IN  IF n < min_occurrences THEN [kind |-> "skip"]
        ELSE IF avg_amount = Num(0) THEN [kind |-> "raise"]
        ELSE IF ~steady \/ Len(intervals) = 0 THEN [kind |-> "skip"]
        ELSE IF ~Lt(var_interval, Num(tolerance_days * tolerance_days))
             THEN [kind |-> "skip"]
        ELSE [kind |-> "entry",
              entry |-> [description |-> SubSeq(desc, 1, Min(Len(desc), 50)),
                         amount |-> avg_amount,
                         frequency |-> frequency,
                         occurrences |-> n,
                         last_date |-> Strftime(last_date),
                         next_due |-> IF DayNumber(next_due) > DayNumber(now)
                                      THEN Strftime(next_due) ELSE "Overdue",
                         avg_interval_days |-> IntOf(avg_interval)]]

\* detect_recurring_transactions(df, min_occurrences, tolerance_days), called
\* on the day `now`
DetectRecurringTransactions(df, min_occurrences, tolerance_days, now) ==
    LET expense_df == OfType(df, "expense")
        descriptions == Unique([i \in 1..Len(expense_df) |-> expense_df[i].description])
        passes == [i \in 1..Len(descriptions) |->
                      RecurringPattern(expense_df, descriptions[i], min_occurrences,
                                       tolerance_days, now)]
        appended(p) == p.kind = "entry"
        found == SelectSeq(passes, appended)
        recurring == [i \in 1..Len(found) |-> found[i].entry]
    IN  IF \E i \in 1..Len(passes) : passes[i].kind = "raise"
        THEN Raised("ZeroDivisionError")
        ELSE Returned(SortedDescending(recurring,
                                       [i \in 1..Len(recurring) |-> recurring[i].amount]))

\* amount >= mean + threshold * std: the comparison of detect_unusual_spending
\* with the boundary let in
IsOutlierInclusive(amount, mean_amount, variance, threshold) ==
    LET diff == FSub(Num(amount), mean_amount)
        reach == FMul(FMul(threshold, threshold), variance)
    IN  IF Ge(threshold, Num(0))
        THEN Ge(diff, Num(0)) /\ Ge(FMul(diff, diff), reach)
        ELSE Ge(diff, Num(0)) \/ Le(FMul(diff, diff), reach)

\* amount > mean_amount + threshold * std_amount, the standard deviation
\* known by its square, the variance (> 0)
IsOutlier(amount, mean_amount, variance, threshold) ==
    LET diff == FSub(Num(amount), mean_amount)
        reach == FMul(FMul(threshold, threshold), variance)
    IN  IF Ge(threshold, Num(0))
        THEN Gt(diff, Num(0)) /\ Gt(FMul(diff, diff), reach)
        ELSE Ge(diff, Num(0)) \/ Lt(FMul(diff, diff), reach)

\* the float sign * sqrt(sq)
SignedRoot(sign, sq) == [nan |-> FALSE, sign |-> sign, sq |-> sq]

\* detect_unusual_spending(df, threshold)
DetectUnusualSpending(df, threshold) ==
    LET expense_df == OfType(df, "expense")
        categories == Unique([i \in 1..Len(expense_df) |-> expense_df[i].category])
        OutliersOf(category) ==
            LET of(r) == r.category = category
                cat_df == SelectSeq(expense_df, of)
                amounts == [i \in 1..Len(cat_df) |-> cat_df[i].amount]
                mean_amount == Mean(amounts)
                variance == SampleVariance(amounts)
                above(r) == IsOutlier(r.amount, mean_amount, variance, threshold)
                outliers == SelectSeq(cat_df, above)
                Deviation(amount) ==
                    LET diff == FSub(Num(amount), mean_amount)
                    IN  SignedRoot(IF diff.n > 0 THEN 1 ELSE IF diff.n < 0 THEN -1 ELSE 0,
                                   FDiv(FMul(diff, diff), variance))
            IN  IF Len(cat_df) < 3 \/ variance = Num(0) THEN <<>>
                ELSE [i \in 1..Len(outliers) |->
                        [date |-> Strftime(outliers[i].date),
                         category |-> outliers[i].category,
                         description |-> SubSeq(outliers[i].description, 1,
                                                Min(Len(outliers[i].description), 50)),
                         amount |-> Num(outliers[i].amount),
                         typical_amount |-> mean_amount,
                         deviation |-> Deviation(outliers[i].amount)]]
        unusual == Flatten([i \in 1..Len(categories) |-> OutliersOf(categories[i])])
        ranked == SortedDescending(unusual,
                      [i \in 1..Len(unusual) |->
                          FMul(Num(unusual[i].deviation.sign), unusual[i].deviation.sq)])
    IN  SubSeq(ranked, 1, Min(Len(ranked), 10))

\* the months calculate_savings_goals needs for one goal; without monthly
\* savings they are float('inf')
MonthsNeeded(current_savings, monthly_savings, goal) ==
    IF monthly_savings > 0
    THEN [inf |-> FALSE, value |-> Frac(goal.target - current_savings, monthly_savings)]
    ELSE [inf |-> TRUE]

\* the whole days of timedelta(days=months_needed * 30) added to a clock
\* that stands `time` of a day after midnight
ProjectedDays(months_needed, time) ==
    LET span == FAdd(FMul(months_needed.value, Num(30)), time)
    IN  span.n \div span.d

\* the dict calculate_savings_goals appends for one goal
GoalProgress(current_savings, monthly_savings, goal, now, time) ==
    LET target == goal.target
        remaining == target - current_savings
        months_needed == MonthsNeeded(current_savings, monthly_savings, goal)
        progress_percent ==
            IF target > 0 THEN Frac(current_savings * 100, target) ELSE Num(0)
        below(limit) == ~months_needed.inf /\ Lt(months_needed.value, Num(limit))
    IN  [name |-> goal.name,
         target |-> Num(target),
         current |-> Num(current_savings),
         remaining |-> Num(Max(0, remaining)),
         progress_percent |->
             IF Lt(progress_percent, Num(100)) THEN progress_percent ELSE Num(100),
         months_needed |->
             IF months_needed.inf THEN [none |-> TRUE]
             ELSE [none |-> FALSE, value |-> months_needed.value],
         projected_date |->
             IF months_needed.inf THEN "Unknown"
             ELSE Strftime(AddDays(now, ProjectedDays(months_needed, time))),
         status |->
             IF current_savings >= target THEN "achieved"
             ELSE IF below(12) THEN "on_track"
             ELSE IF below(24) THEN "at_risk"
             ELSE "off_track"]

\* calculate_savings_goals(current_savings, monthly_savings, goals), called
\* when the clock reads the day `now` and the part `time` of that day
CalculateSavingsGoals(current_savings, monthly_savings, goals, now, time) ==
    IF \E i \in 1..Len(goals) :
           LET months_needed == MonthsNeeded(current_savings, monthly_savings, goals[i])
               \* the days from the first day of this year to the projected date
               k == SumSeq([m \in 1..(now[2] - 1) |-> DaysInMonth(now[1], m)])
                        + now[3] - 1 + ProjectedDays(months_needed, time)
           \* datetime + timedelta leaves the years 1..9999: OverflowError
           IN  ~months_needed.inf
               /\ (k >= DaysBetweenYears(now[1], 10000)
                      \/ k < DaysBetweenYears(now[1], 1))
    THEN Raised("OverflowError")
    ELSE Returned([i \in 1..Len(goals) |->
                      GoalProgress(current_savings, monthly_savings, goals[i], now, time)])

(***************************************************************************)
(* analytics.py: analyze_finances, the entry point of the upload and demo  *)
(* flows.                                                                  *)
(***************************************************************************)
\* format(x, ',.0f'): the rounded value with its digits grouped by three
FormatGrouped(x) ==
    LET RECURSIVE Grouped(_)
        Grouped(digits) ==
            IF Len(digits) <= 3 THEN digits
            ELSE Grouped(SubSeq(digits, 1, Len(digits) - 3)) \o ","
                     \o SubSeq(digits, Len(digits) - 2, Len(digits))
        mag == [nan |-> FALSE, n |-> Abs(x.n), d |-> x.d]
    IN  (IF x.n < 0 THEN "-" ELSE "") \o Grouped(NatToStr(RoundHalfEven(mag)))

\* date - pd.DateOffset(months=1): the same day of the month before, or the
\* last day of that month
MonthBefore(date) ==
    LET y == IF date[2] = 1 THEN date[1] - 1 ELSE date[1]
        m == IF date[2] = 1 THEN 12 ELSE date[2] - 1
    IN  <<y, m, Min(date[3], DaysInMonth(y, m))>>

\* analyze_finances(transactions_df, accounts_df): the dict it returns, or
\* the ValueError of pd.to_datetime / pd.to_numeric on a cell that does not
\* parse.  Categories of equal spend do not occur in the tables drawn, the
\* order sort_values gives them is left open.
AnalyzeFinances(transactions_df, accounts_df) ==
    LET df == [i \in 1..Len(transactions_df) |->
                  [transactions_df[i] EXCEPT !.date = ToDatetime(@),
                                             !.amount = ToNumeric(@),
                                             !.type = Lower(@)]]
        parsed == \A i \in 1..Len(df) : df[i].date.k = "ts" /\ df[i].amount.k = "num"
        expense_df == OfType(df, "expense")
        income == Num(AmountSum(OfType(df, "income")))
        expenses == Num(AmountSum(expense_df))
        savings_rate == IF Gt(income, Num(0)) THEN FDiv(FSub(income, expenses), income)
                        ELSE Num(0)
        names == Unique([i \in 1..Len(expense_df) |-> expense_df[i].category])
        category_spend ==
            SortedDescending([i \in 1..Len(names) |->
                                 [category |-> names[i],
                                  amount |-> Num(CategorySum(expense_df, names[i]))]],
                             [i \in 1..Len(names) |->
                                 Num(CategorySum(expense_df, names[i]))])
        total_expenses == IF Gt(expenses, Num(0)) THEN expenses
                          ELSE Frac(1, 1000000000)
        percent(row) == FDiv(row.amount, total_expenses)
        over(row) == Ge(percent(row), Frac(20, 100))
        overspending == SelectSeq(category_spend, over)
        liquid(a) == a.type \in {"cash", "savings"}
        held == SelectSeq(accounts_df, liquid)
        liquid_savings == Num(SumSeq([i \in 1..Len(held) |-> held[i].balance]))
        Stamp(date) == date[1] * 10000 + date[2] * 100 + date[3]
        latest == CHOOSE i \in 1..Len(df) :
                      \A j \in 1..Len(df) : Stamp(df[i].date.v) >= Stamp(df[j].date.v)
        recent(r) == Stamp(r.date.v) >= Stamp(MonthBefore(df[latest].date.v))
        monthly_expenses == Num(AmountSum(SelectSeq(expense_df, recent)))
        target_emergency == FMul(monthly_expenses, Num(3))
        has_emergency_fund == Ge(liquid_savings, target_emergency)
        alerts ==
            (IF Le(income, expenses)
             THEN <<"Spending meets or exceeds income. Review budget urgently.">>
             ELSE <<>>)
            \o (IF ~has_emergency_fund
                THEN <<"No adequate emergency fund (3 months). Increase savings.">>
                ELSE <<>>)
            \o (IF Lt(savings_rate, Frac(10, 100))
                THEN <<"Savings rate below 10%. Aim to raise gradually.">>
                ELSE <<>>)
        shortfall == IF expenses = Num(0) THEN Num(0)
                     ELSE FDiv(FSub(expenses, income), expenses)
        recommended_cut == IF Lt(shortfall, Frac(15, 100)) THEN shortfall
                           ELSE Frac(15, 100)
        monthly_savings_gain == FMul(recommended_cut, expenses)
        cut_percent == IntOf(FMul(recommended_cut, Num(100)))
        advice ==
            <<"Reduce discretionary spend by "
                \o (IF cut_percent < 0 THEN "-" ELSE "") \o NatToStr(Abs(cut_percent))
                \o "% to free €" \o FormatGrouped(monthly_savings_gain) \o "/month">>
    IN  IF ~parsed THEN Raised("ValueError")
        ELSE Returned(
            [income |-> income,
             expenses |-> expenses,
             savings_rate |-> savings_rate,
             alerts |-> alerts,
             recommendations |-> advice,
             benchmarks |-> [your_savings_rate |-> Round1(FMul(savings_rate, Num(100))),
                             age_group_average |-> Num(12)],
             overspending |-> [i \in 1..Len(overspending) |->
                                  [category |-> overspending[i].category,
                                   amount |-> overspending[i].amount,
                                   percent |-> percent(overspending[i])]],
             charts |-> [income_vs_expenses |->
                             [labels |-> <<"Income", "Expenses">>,
                              data |-> <<income, expenses>>],
                         category_breakdown |->
                             [labels |-> [i \in 1..Len(category_spend) |->
                                             category_spend[i].category],
                              data |-> [i \in 1..Len(category_spend) |->
                                           category_spend[i].amount]],
                         savings_progress |->
                             [liquid_savings |-> liquid_savings,
                              target_emergency |-> target_emergency]]])

(***************************************************************************)
(* Calls of the analytics functions on their own: the arguments are drawn  *)
(* at the start, one action per function.                                  *)
(***************************************************************************)
RecurringRows == 4

\* n charges, one per month on the 1st, from the month `first` of 2024 on
ChargeSeries(description, amount, type, first, n) ==
    [i \in 1..n |-> [date |-> <<2024, first + i - 1, 1>>, amount |-> amount,
                     type |-> type, category |-> "Subscriptions",
                     description |-> description]]

\* the tables of detect_recurring_transactions: up to n monthly charges of
\* each of five series, two of them with descriptions that contain each
\* other, one of amount zero, one of type income
RecurringTables(n) ==
    {ChargeSeries("Netflix", 15, "expense", 1, a)
        \o ChargeSeries("Netflix Premium", 16, "expense", n + 1, b)
        \o ChargeSeries("Voucher", 0, "expense", 1, c)
        \o ChargeSeries("Netflix", 15, "income", 1, d)
        \o ChargeSeries("Gym membership", 40, "expense", 1, g) :
            a \in 0..n, b \in 0..n, c \in 0..n, d \in 0..1, g \in 0..n}

\* the days on which the detector is called: datetime.now()
Clock == {<<2024, 3, 30>>, <<2024, 3, 31>>}

RecurringCalls ==
    [fn : {"detect_recurring_transactions"}, df : RecurringTables(RecurringRows),
     min_occurrences : {3}, tolerance_days : {3}, now : Clock]

BudgetMonths == 3

\* a normalized row on the 5th of month m of 2024
MonthRow(m, amount, type) ==
    [date |-> Timestamp(2024, m, 5), month |-> ToPeriodM(Timestamp(2024, m, 5)),
     amount |-> AmountNum(amount), type |-> type, category |-> "Budget",
     description |-> "Monthly " \o type]

\* the tables of _diagnose_budgeting: the first k <= n months of 2024, each
\* with one income of 1000 or 1500 and one expense of 700, 800 or 1200
BudgetTables(n) ==
    UNION {{Flatten([m \in 1..k |-> <<MonthRow(m, income[m], "income"),
                                      MonthRow(m, expense[m], "expense")>>]) :
                income \in [1..k -> {1000, 1500}],
                expense \in [1..k -> {700, 800, 1200}]} : k \in 0..n}

BudgetingCalls == [fn : {"_diagnose_budgeting"}, transactions : BudgetTables(BudgetMonths)]

\* the tables of _diagnose_debt: the first k <= n months of 2024, each with
\* one loan payment at or just above a threshold of the ratio to an income
\* of 1000, and with that income in every month or in none
DebtTables(n) ==
    UNION {{Flatten([m \in 1..k |->
                (IF paid THEN <<MonthRow(m, 1000, "income")>> ELSE <<>>)
                \o <<[MonthRow(m, debt[m], "expense")
                          EXCEPT !.description = "Car loan payment"]>>]) :
                debt \in [1..k -> {150, 151, 280, 281, 360, 361, 500, 501}],
                paid \in BOOLEAN} : k \in 1..n}

DebtCalls == [fn : {"_diagnose_debt"}, transactions : DebtTables(BudgetMonths)]

SpendingRows == 9

\* the amounts of three spending categories, in the order of their rows
SpendingAmounts ==
    [Dining    |-> <<10, 10, 10, 10, 100, 10, 10, 10, 10, 10>>,
     Travel    |-> <<0, 0, 0, 6, 7, 8, 9, 10, 11, 12>>,
     Groceries |-> <<1, 1, 1, 4, 5, 5, 7, 8, 9, 10>>]

\* the first n expenses of a category, one per day of the given month
SpendingSeries(category, month, n) ==
    [i \in 1..n |-> [date |-> <<2024, month, i>>, amount |-> SpendingAmounts[category][i],
                     type |-> "expense", category |-> category,
                     description |-> category \o " purchase"]]

\* the tables of detect_unusual_spending: with or without an income row, up
\* to n expenses of each category
SpendingTables(n) ==
    {SubSeq(<<[date |-> <<2024, 1, 31>>, amount |-> 5000, type |-> "income",
               category |-> "Dining", description |-> "Salary"]>>, 1, d)
        \o SpendingSeries("Dining", 1, a)
        \o SpendingSeries("Travel", 2, b)
        \o SpendingSeries("Groceries", 3, c) :
            d \in 0..1, a \in 0..n, b \in 0..n, c \in 0..n}

SpendingCalls ==
    [fn : {"detect_unusual_spending"}, df : SpendingTables(SpendingRows),
     threshold : {Num(0), Num(1), Num(2)}]

\* the calls of analyze_finances: the tables a caller may give an engine
AnalyzeCalls ==
    [fn : {"analyze_finances"}, transactions_df : TransactionTables(NRows),
     accounts_df : AccountTables]

MaxGoals == 2

\* the calls of calculate_savings_goals: current savings of 0 or 1000, monthly
\* savings from -100 to 400, up to MaxGoals goals, each with one of the
\* targets, at midnight or at noon
SavingsCalls ==
    LET goalLists ==
            UNION {[1..k -> [name : {"House deposit"},
                             target : {0, 1000, 1100, 1200, 2400, 3400, 100000}]] :
                       k \in 1..MaxGoals}
    IN  [fn : {"calculate_savings_goals"}, current_savings : {0, 1000},
         monthly_savings : {-100, 0, 1, 100, 400}, goals : goalLists,
         now : Clock, time : {Num(0), Frac(1, 2)}]

AnalyticsInit ==
    /\ Construct({}, [e \in Engines |-> NoInput])
    /\ arg \in RecurringCalls \cup BudgetingCalls \cup SpendingCalls \cup AnalyzeCalls
                \cup DebtCalls \cup SavingsCalls
    /\ out = Pending
    /\ NoStore

CallDetectRecurring ==
    /\ arg.fn = "detect_recurring_transactions"
    /\ ~out.done
    /\ out' = DetectRecurringTransactions(arg.df, arg.min_occurrences,
                                          arg.tolerance_days, arg.now)
    /\ UNCHANGED <<EngineVars, arg, StoreVars>>

\* _diagnose_budgeting on an engine whose table is the argument: the result
\* with the gaps and risks it appends
CallDiagnoseBudgeting ==
    /\ arg.fn = "_diagnose_budgeting"
    /\ ~out.done
    /\ out' = Returned(DiagnoseBudgeting(arg.transactions))
    /\ UNCHANGED <<EngineVars, arg, StoreVars>>

CallDetectUnusualSpending ==
    /\ arg.fn = "detect_unusual_spending"
    /\ ~out.done
    /\ out' = Returned(DetectUnusualSpending(arg.df, arg.threshold))
    /\ UNCHANGED <<EngineVars, arg, StoreVars>>

\* analyze_finances: no engine is built, no diagnostic is run
CallAnalyzeFinances ==
    /\ arg.fn = "analyze_finances"
    /\ ~out.done
    /\ out' = AnalyzeFinances(arg.transactions_df, arg.accounts_df)
    /\ UNCHANGED <<EngineVars, arg, StoreVars>>

\* _diagnose_debt on an engine whose table is the argument: the result with
\* the gaps and risks it appends
CallDiagnoseDebt ==
    /\ arg.fn = "_diagnose_debt"
    /\ ~out.done
    /\ out' = Returned(DiagnoseDebt(arg.transactions))
    /\ UNCHANGED <<EngineVars, arg, StoreVars>>

CallCalculateSavingsGoals ==
    /\ arg.fn = "calculate_savings_goals"
    /\ ~out.done
    /\ out' = CalculateSavingsGoals(arg.current_savings, arg.monthly_savings,
                                    arg.goals, arg.now, arg.time)
    /\ UNCHANGED <<EngineVars, arg, StoreVars>>

AnalyticsNext ==
    \/ CallDetectRecurring
    \/ CallDiagnoseBudgeting
    \/ CallDetectUnusualSpending
    \/ CallAnalyzeFinances
    \/ CallDiagnoseDebt
    \/ CallCalculateSavingsGoals

AnalyticsSpec == AnalyticsInit /\ [][AnalyticsNext]_vars

(***************************************************************************)
(* run_full_diagnostic on monthly ledgers.                                 *)
(***************************************************************************)
LedgerMonths == 3

\* one engine, built on a ledger and one savings account.  The ledgers are
\* those of the first k <= LedgerMonths months of 2024: a month has a salary
\* of 4000 or none, and no expense, groceries of 3600, a loan repayment of
\* 1200 or a loan repayment of 4800
LedgerInit ==
    /\ \E k \in 1..LedgerMonths :
        \E paid \in [1..k -> BOOLEAN], spent \in [1..k -> {0, 3600, 1200, 4800}] :
           LET day(m, d) == "2024-0" \o NatToStr(m) \o d
               ledger ==
                   Flatten([m \in 1..k |->
                       (IF paid[m]
                        THEN <<RawRow(day(m, "-05"), "4000", "income",
                                      "Salary", "Salary ACME Ltd")>>
                        ELSE <<>>)
                       \o (CASE spent[m] = 0 -> <<>>
                             [] spent[m] = 3600 ->
                                   <<RawRow(day(m, "-15"), "3600", "expense",
                                            "Groceries", "Supermarket")>>
                             [] OTHER ->
                                   <<RawRow(day(m, "-15"), NatToStr(spent[m]),
                                            "expense", "Debt", "Loan repayment")>>)])
           IN  Construct({"e1"},
                         [e \in Engines |->
                             IF e = "e1"
                             THEN [transactions |-> ledger,
                                   accounts |-> <<[type |-> "savings", balance |-> 6000]>>,
                                   user_profile |-> NoneProfile]
                             ELSE NoInput])
    /\ arg = NoCall
    /\ out = Pending
    /\ NoStore

LedgerSpec == LedgerInit /\ [][Next]_vars

(***************************************************************************)
(* user_store.py: the password reset.  Every function opens its own        *)
(* connection to users.db, so calls made by different requests interleave  *)
(* between statements; the statements of one connection up to its commit   *)
(* take effect together.                                                   *)
(***************************************************************************)
MaxCallers == 2
MaxClock == 2

Callers == 1..MaxCallers

\* generate_password_hash(password): the hash holds a salt drawn at random
GeneratePasswordHash(password, salt) == [salt |-> salt, password |-> password]
Salts == {"s1", "s2"}

\* users.db after init_db() and one create_reset_token('demo@example.com')
\* at hour 0: the token expires one hour later.  Each request calls one of the
\* two functions, with the token of the database or a token never issued.
ResetInit ==
    /\ Construct({}, [e \in Engines |-> NoInput])
    /\ arg = NoCall
    /\ out = Pending
    /\ db = [users |-> <<[id |-> 1, email |-> "demo@example.com",
                          password_hash |-> GeneratePasswordHash("Demo123!", "s1")]>>,
             reset_tokens |-> <<[id |-> 1, user_id |-> 1, token |-> "token-1",
                                 expires_at |-> 1, used |-> 0]>>]
    /\ clock = 0
    /\ \E fn \in [Callers -> {"reset_password", "verify_reset_token"}],
          token \in [Callers -> {"token-1", "token-0"}] :
           requests = [p \in Callers |->
                          [fn |-> fn[p], token |-> token[p],
                           new_password |-> "Password" \o NatToStr(p),
                           at |-> "called", token_data |-> [none |-> TRUE],
                           result |-> [none |-> TRUE]]]

\* verify_reset_token(token): the row of the SELECT, with the user's email,
\* or None
VerifyResetToken(token) ==
    LET rows == SelectSeq(db.reset_tokens,
                          LAMBDA rt : /\ \E u \in 1..Len(db.users) :
                                             db.users[u].id = rt.user_id
                                      /\ rt.token = token
                                      /\ rt.used = 0
                                      /\ rt.expires_at > clock)
    IN  IF rows = <<>> THEN [none |-> TRUE]
        ELSE [none |-> FALSE, id |-> rows[1].id, user_id |-> rows[1].user_id,
              token |-> rows[1].token, expires_at |-> rows[1].expires_at,
              used |-> rows[1].used,
              email |-> db.users[CHOOSE u \in 1..Len(db.users) :
                                     db.users[u].id = rows[1].user_id].email]

\* a request calls verify_reset_token on its own: it returns the row or None
CallVerifyResetToken(p) ==
    /\ requests[p].fn = "verify_reset_token"
    /\ requests[p].at = "called"
    /\ requests' = [requests EXCEPT ![p].at = "returned",
                                    ![p].result = VerifyResetToken(requests[p].token)]
    /\ UNCHANGED <<EngineVars, arg, out, db, clock>>

\* reset_password up to `if not token_data: return False`
ResetPasswordVerify(p) ==
    /\ requests[p].fn = "reset_password"
    /\ requests[p].at = "called"
    /\ LET token_data == VerifyResetToken(requests[p].token)
       IN  requests' =
               IF token_data.none
               THEN [requests EXCEPT ![p].at = "returned", ![p].result = FALSE]
               ELSE [requests EXCEPT ![p].at = "verified", ![p].token_data = token_data]
    /\ UNCHANGED <<EngineVars, arg, out, db, clock>>

\* reset_password from sqlite3.connect to `return True`: the two UPDATEs and
\* the commit
ResetPasswordUpdate(p) ==
    /\ requests[p].at = "verified"
    /\ \E salt \in Salts :
           db' = [users |->
                      [u \in 1..Len(db.users) |->
                          IF db.users[u].id = requests[p].token_data.user_id
                          THEN [db.users[u] EXCEPT !.password_hash =
                                    GeneratePasswordHash(requests[p].new_password, salt)]
                          ELSE db.users[u]],
                  reset_tokens |->
                      [t \in 1..Len(db.reset_tokens) |->
                          IF db.reset_tokens[t].token = requests[p].token
                          THEN [db.reset_tokens[t] EXCEPT !.used = 1]
                          ELSE db.reset_tokens[t]]]
    /\ requests' = [requests EXCEPT ![p].at = "returned", ![p].result = TRUE]
    /\ UNCHANGED <<EngineVars, arg, out, clock>>

\* an hour passes
ClockTick ==
    /\ clock < MaxClock
    /\ clock' = clock + 1
    /\ UNCHANGED <<EngineVars, arg, out, db, requests>>

ResetNext ==
    \/ \E p \in Callers : CallVerifyResetToken(p)
    \/ \E p \in Callers : ResetPasswordVerify(p)
    \/ \E p \in Callers : ResetPasswordUpdate(p)
    \/ ClockTick

ResetSpec == ResetInit /\ [][ResetNext]_vars

(***************************************************************************)
(* Claims.                                                                 *)
(***************************************************************************)
Scores(diag) == {diag[i].value.score : i \in 1..Len(diag)}
FirstRun(e) == Len(returned[e]) = 0 /\ pc[e] \notin {"unbuilt", "idle"}

\* the classifiers' outcomes on one input, in the order run_full_diagnostic
\* calls them
OwnOutcomes(in) ==
    LET tx == PreparedTable(in.transactions)
        profile == ProfileOrEmpty(in.user_profile)
    IN  <<DiagnoseIncome(tx), DiagnoseExpenses(tx), DiagnoseDebt(tx),
          DiagnoseAssets(tx, in.accounts), DiagnoseInsurance(tx),
          DiagnoseGoals(tx, profile), DiagnoseBudgeting(tx), DiagnoseCredit(tx),
          DiagnoseTaxes(tx), DiagnoseBehavior(tx)>>

OwnGaps(in) ==
    LET o == OwnOutcomes(in) IN Flatten([i \in 1..Len(o) |-> o[i].gaps])
OwnRisks(in) ==
    LET o == OwnOutcomes(in) IN Flatten([i \in 1..Len(o) |-> o[i].risks])

\* C1: after run_full_diagnostic, each of the ten category scores lies in
\* 0..100 and overall_score lies in [0, 100].
C1_ScoresInRange ==
    \A e \in Engines : \A k \in 1..Len(returned[e]) :
        LET r == returned[e][k]
        IN  /\ Len(r.diagnostics) = Len(Weights)
            /\ \A i \in 1..Len(r.diagnostics) : r.diagnostics[i].value.score \in 0..100
            /\ Ge(r.overall_score, Num(0))
            /\ Le(r.overall_score, Num(100))

\* a run has returned with a category at score 0 and another at score 100
C1_Witness ==
    \E e \in Engines :
        /\ Len(returned[e]) >= 1
        /\ {0, 100} \subseteq Scores(returned[e][1].diagnostics)

\* C2: every call of run_full_diagnostic returns gaps and risks that hold
\* only the findings of that call, so a later call on the same engine returns
\* the same gaps, risks and questionnaire as the first call.
C2_FindingsOfOneRun ==
    \A e \in Engines : \A k \in 2..Len(returned[e]) :
        /\ returned[e][k].gaps = OwnGaps(input[e])
        /\ returned[e][k].risks = OwnRisks(input[e])
        /\ returned[e][k].gaps = returned[e][1].gaps
        /\ returned[e][k].risks = returned[e][1].risks
        /\ returned[e][k].questionnaire = returned[e][1].questionnaire

BothReturned == \A e \in Engines : Len(returned[e]) = 1

C4_Isolated ==
    \A e \in Engines :
        Len(returned[e]) = 1 =>
            /\ returned[e][1].gaps = OwnGaps(input[e])
            /\ returned[e][1].risks = OwnRisks(input[e])

\* an engine has returned findings that the other engine, still running on
\* another input, does not produce
C4_Witness ==
    \E e \in Engines, f \in Engines :
        /\ Len(returned[e]) = 1
        /\ pc[f] \notin {"unbuilt", "idle"}
        /\ Len(gaps[f]) > 0
        /\ OwnGaps(input[e]) # OwnGaps(input[f])
        /\ OwnRisks(input[e]) # OwnRisks(input[f])
        /\ Len(returned[e][1].risks) > 0

StartsWith(text, prefix) == Len(text) >= Len(prefix) /\ SubSeq(text, 1, Len(prefix)) = prefix

\* the gaps, in the order their classifiers run
GapOrder ==
    <<GapIncome, GapDebt, GapInvestment, GapInsurance, GapGoals, GapCredit, GapTax>>
\* how each risk begins, in the order their classifiers run (the debt
\* classifier has two wordings)
RiskOrder ==
    <<{"High expense ratio: "},
      {"Very high debt-to-income ratio: ", "High debt-to-income ratio: "},
      {"Insufficient emergency fund: "},
      {"Negative savings rate: "},
      {"Frequent overspending: "},
      {"High credit card usage: "}>>

\* the place of a finding in the order, 0 for a finding of no classifier
GapRank(gap) ==
    IF \E i \in 1..Len(GapOrder) : GapOrder[i] = gap
    THEN CHOOSE i \in 1..Len(GapOrder) : GapOrder[i] = gap
    ELSE 0
RiskRank(risk) ==
    IF \E i \in 1..Len(RiskOrder) : \E p \in RiskOrder[i] : StartsWith(risk, p)
    THEN CHOOSE i \in 1..Len(RiskOrder) : \E p \in RiskOrder[i] : StartsWith(risk, p)
    ELSE 0

\* every finding is a classifier's, and each comes after those of the
\* classifiers that ran before
InOrder(list, Rank(_)) ==
    /\ \A i \in 1..Len(list) : Rank(list[i]) >= 1
    /\ \A i \in 1..Len(list), j \in 1..Len(list) : i < j => Rank(list[i]) < Rank(list[j])

\* C5: in one run on a fresh engine, gaps appear in classifier execution
\* order, each classifier's gap at most once, and risks appear in classifier
\* execution order; no later classifier's finding precedes an earlier one's.
C5_FindingsInOrder ==
    \A e \in Engines :
        /\ FirstRun(e) => InOrder(gaps[e], GapRank) /\ InOrder(risks[e], RiskRank)
        /\ Len(returned[e]) >= 1 =>
              /\ InOrder(returned[e][1].gaps, GapRank)
              /\ InOrder(returned[e][1].risks, RiskRank)

\* a first run has returned at least three gaps and at least three risks
C5_Witness ==
    \E e \in Engines :
        /\ Len(returned[e]) >= 1
        /\ Len(returned[e][1].gaps) >= 3
        /\ Len(returned[e][1].risks) >= 3

\* the weights the claim states, in hundredths
StatedWeight(category) ==
    CASE category = "income" -> 15
      [] category = "expenses" -> 10
      [] category = "debt_liabilities" -> 15
      [] category = "assets_investments" -> 15
      [] category = "insurance" -> 5
      [] category = "financial_goals" -> 5
      [] category = "budgeting" -> 15
      [] category = "credit_health" -> 10
      [] category = "tax_situation" -> 5
      [] category = "financial_behavior" -> 5

\* C6: overall_score is the sum over the ten categories of score x weight,
\* rounded to one decimal, with the stated weights, which sum to 1.0; a
\* category without an entry contributes 0 and the other weights are kept.
C6_WeightedSum ==
    /\ Len(Weights) = 10
    /\ \A i \in 1..Len(Weights) : Weights[i].weight = StatedWeight(Weights[i].category)
    /\ SumSeq([i \in 1..Len(Weights) |-> Weights[i].weight]) = 100
    /\ (arg.fn = "_calculate_overall_score" /\ out.done) =>
          LET diag == arg.diagnostics
              \* the weighted sum, in hundredths
              sum == SumSeq([i \in 1..Len(diag) |->
                         diag[i].value.score * StatedWeight(diag[i].key)])
              tenths == FMul(out.value, Num(10))
          IN  /\ tenths.d = 1
              /\ 2 * Abs(10 * tenths.n - sum) <= 10

\* the score of a dict that lacks some category has been computed, and is
\* not 0
C6_Witness ==
    /\ arg.fn = "_calculate_overall_score"
    /\ out.done
    /\ Len(arg.diagnostics) \in 1..9
    /\ Gt(out.value, Num(0))

GradeOrder == <<"F", "D", "D+", "C-", "C", "C+", "B-", "B", "B+", "A-", "A", "A+">>
GradeRank(grade) == CHOOSE i \in 1..Len(GradeOrder) : GradeOrder[i] = grade
GradeThresholds == {40, 45, 50, 55, 60, 65, 70, 75, 80, 85, 90}

\* C7: every score in [0, 100] maps to exactly one of the twelve grades by
\* the thresholds 90/85/.../40, inclusive on the lower edge, and a higher
\* score never gets a lower grade.
C7_GradeBands ==
    (arg.fn = "_get_grade" /\ out.done) =>
        /\ \E i \in 1..Len(GradeOrder) : GradeOrder[i] = out.value
        /\ GradeRank(out.value)
              = 1 + Cardinality({h \in GradeThresholds : Ge(arg.score, Num(h))})
        /\ \A t \in 0..1000 :
              Le(Frac(t, 10), arg.score) =>
                  GradeRank(GetGrade(Frac(t, 10))) <= GradeRank(out.value)

\* the score 85.0, on the lower edge of its band, has been graded A
C7_Witness ==
    /\ arg.fn = "_get_grade"
    /\ out.done
    /\ arg.score = Num(85)
    /\ out.value = "A"

NoIncomeRows(tx) == \A i \in 1..Len(tx) : tx[i].type # "income"

\* C8: when the normalized transactions hold no row of type income, the
\* income classifier returns exactly score 0, status 'critical',
\* data_available False, appends exactly one gap, which mentions income, and
\* records no risk.
C8_IncomeNoData ==
    \A e \in Engines :
        (FirstRun(e) /\ pc[e] = "expenses" /\ NoIncomeRows(transactions[e])) =>
            /\ OGet(diagnostics[e], "income")
                  = [score |-> 0, status |-> "critical", data_available |-> FALSE]
            /\ Len(gaps[e]) = 1
            /\ Contains(Lower(gaps[e][1]), "income")
            /\ risks[e] = <<>>

\* the income classifier has run on a table that has rows, none of type income
C8_Witness ==
    \E e \in Engines :
        /\ FirstRun(e)
        /\ pc[e] = "expenses"
        /\ NoIncomeRows(transactions[e])
        /\ Len(transactions[e]) > 0

NoDebtKeyword(tx) ==
    \A i \in 1..Len(tx) :
        \A k \in 1..Len(DebtKeywords) : ~Contains(Lower(tx[i].description), DebtKeywords[k])

\* C9: when no description matches a debt keyword, the debt classifier
\* returns score 70, status 'assumed_no_debt', data_available False, appends
\* exactly one gap, which asks the user to confirm, and records no risk.
C9_DebtAssumed ==
    \A e \in Engines :
        (FirstRun(e) /\ pc[e] = "assets" /\ NoDebtKeyword(transactions[e])) =>
            /\ OGet(diagnostics[e], "debt_liabilities")
                  = [score |-> 70, status |-> "assumed_no_debt",
                     data_available |-> FALSE]
            /\ Len(gaps[e]) >= 1
            /\ Contains(Lower(gaps[e][Len(gaps[e])]), "confirm")
            /\ Len(gaps[e])
                  = 1 + (IF OGet(diagnostics[e], "income").data_available THEN 0 ELSE 1)
            /\ \A i \in 1..Len(risks[e]) : ~Contains(Lower(risks[e][i]), "debt")

\* the debt classifier has run on a table that has rows, none with a debt
\* keyword, after the expenses classifier recorded a risk
C9_Witness ==
    \E e \in Engines :
        /\ FirstRun(e)
        /\ pc[e] = "assets"
        /\ NoDebtKeyword(transactions[e])
        /\ Len(transactions[e]) > 0
        /\ Len(risks[e]) > 0

\* C10: a classifier that lacks the data it needs returns its default result
\* with data_available False and records a gap in the same step.
C10_NoDataRecordsGap ==
    [][\A e \in Engines :
          (/\ Len(diagnostics'[e]) = Len(diagnostics[e]) + 1
           /\ ~diagnostics'[e][Len(diagnostics'[e])].value.data_available)
          => Len(gaps'[e]) = Len(gaps[e]) + 1]_vars

\* the keys of the result dicts whose value is a float
FloatKeys ==
    {"avg_monthly_income", "stability", "primary_dependency",
     "avg_monthly_expenses", "expense_ratio", "essential_ratio",
     "avg_monthly_debt", "debt_to_income",
     "total_balance", "emergency_fund_months", "investment_activity",
     "monthly_premium", "insurance_ratio",
     "avg_savings_rate", "savings_consistency",
     "avg_monthly_cc_payment", "cc_to_income_ratio",
     "total_tax_paid", "total_refunds", "effective_tax_rate",
     "expense_volatility", "savings_discipline"}

\* C11: every numeric value of a returned result is a finite number: no
\* category metric and no score is NaN, also when the data covers a single
\* calendar month.
C11_FiniteResult ==
    \A e \in Engines : \A k \in 1..Len(returned[e]) :
        LET r == returned[e][k]
        IN  /\ ~r.overall_score.nan
            /\ \A i \in 1..Len(r.diagnostics) :
                  LET data == r.diagnostics[i].value
                  IN  \A key \in (DOMAIN data) \cap FloatKeys : ~data[key].nan


\* C12: no call ends in a division fault: detect_recurring_transactions
\* returns normally also when three or more expenses of one description
\* have amounts whose average is 0.
C12_NoDivisionFault == out.done => "raised" \notin DOMAIN out


\* a raw row that normalization keeps: its date and its amount both parse
Parsable(r) == ToDatetime(r.date).k = "ts" /\ ToNumeric(r.amount).k = "num"

\* the engine has normalized its table and not begun another normalization
Normalized(e) ==
    /\ pc[e] \notin {"unbuilt", "prepare"}
    /\ pc[e] = "idle" => Len(returned[e]) > 0

\* C13: after _prepare_data every row the classifiers read has a valid date
\* and a numeric amount, and the rows are exactly the raw rows whose date and
\* amount both parse, each with its parsed values: a row with an unparsable
\* date or amount is left out, never kept with a default.
C13_OnlyValidRows ==
    \A e \in Engines : Normalized(e) =>
        LET raw == input[e].transactions
            good == SelectSeq(raw, Parsable)
            tx == transactions[e]
        IN  /\ \A i \in 1..Len(tx) : tx[i].date.k = "ts" /\ tx[i].amount.k = "num"
            /\ Len(tx) = Len(good)
            /\ \A i \in 1..Len(good) :
                  /\ tx[i].date = ToDatetime(good[i].date)
                  /\ tx[i].amount = ToNumeric(good[i].amount)
                  /\ tx[i].type = good[i].type
                  /\ tx[i].description = good[i].description

\* a table with an unparsable date and an unparsable amount has been
\* normalized, and rows are left
C13_Witness ==
    /\ pc["e1"] = "income"
    /\ \E i \in 1..Len(input["e1"].transactions) :
           ToDatetime(input["e1"].transactions[i].date).k # "ts"
    /\ \E i \in 1..Len(input["e1"].transactions) :
           /\ ToDatetime(input["e1"].transactions[i].date).k = "ts"
           /\ ToNumeric(input["e1"].transactions[i].amount).k # "num"
    /\ Len(transactions["e1"]) > 0
    /\ Len(transactions["e1"]) = Len(input["e1"].transactions) - 2


\* the input with every transaction type in lower case
LowerTypes(in) ==
    [in EXCEPT !.transactions =
        [i \in 1..Len(in.transactions) |->
            [in.transactions[i] EXCEPT !.type = Lower(in.transactions[i].type)]]]

\* C14: the diagnostic result does not depend on the letter case of type: a
\* run returns for every category the result that the classifier computes
\* on the same rows with their types in lower case.
C14_TypeCaseIgnored ==
    \A e \in Engines : Len(returned[e]) >= 1 =>
        LET r == returned[e][1]
            lower == OwnOutcomes(LowerTypes(input[e]))
        IN  \A i \in 1..Len(r.diagnostics) : r.diagnostics[i].value = lower[i].result


\* C15: building an engine and running the full diagnostic leaves the
\* caller's transactions table, accounts table and user profile as they
\* were: no step changes them, normalization works on the engine's copy.
C15_CallerInputKept == [][input' = input]_vars

\* a run has normalized a table with an unparsable row: the engine's table
\* differs from the caller's
C15_Witness ==
    /\ pc["e1"] = "income"
    /\ Len(input["e1"].transactions) >= 2
    /\ Len(transactions["e1"]) < Len(input["e1"].transactions)
    /\ \A i \in 1..Len(input["e1"].transactions) :
           input["e1"].transactions[i].date.k = "str"


\* C16: every classifier that had data (data_available True) reports the
\* status its score gives on the ladder excellent >= 80, good >= 60,
\* fair >= 40, else poor.
C16_StatusOnLadder ==
    \A e \in Engines : \A i \in 1..Len(diagnostics[e]) :
        LET d == diagnostics[e][i].value
        IN  d.data_available => d.status = Ladder(d.score)


\* the sum of the amounts of the rows of type t in month m
TypeSum(tx, t, m) ==
    LET of(r) == r.type = t /\ r.month = m
        rows == SelectSeq(tx, of)
    IN  SumSeq([i \in 1..Len(rows) |-> rows[i].amount.v])

\* every month of the table has the same income and the same expense, and
\* (income - expense) / income >= 20%
SteadySaver(tx) ==
    LET months == {tx[i].month : i \in 1..Len(tx)}
    IN  /\ months # {}
        /\ \A m \in months : \E i \in 1..Len(tx) : tx[i].month = m /\ tx[i].type = "income"
        /\ \A m \in months : \E i \in 1..Len(tx) : tx[i].month = m /\ tx[i].type = "expense"
        /\ \A m1, m2 \in months :
              /\ TypeSum(tx, "income", m1) = TypeSum(tx, "income", m2)
              /\ TypeSum(tx, "expense", m1) = TypeSum(tx, "expense", m2)
        /\ \A m \in months :
              /\ TypeSum(tx, "income", m) > 0
              /\ (TypeSum(tx, "income", m) - TypeSum(tx, "expense", m)) * 100
                     >= 20 * TypeSum(tx, "income", m)

\* C17: when every month has the same income I and the same expense E with
\* (I - E) / I >= 20%, _diagnose_budgeting returns score 100 (40 for the
\* savings rate, 30 for no overspending month, 30 for savings consistency 1),
\* status 'excellent', and records no risk. Amounts are whole numbers.
C17_SteadySaverScores100 ==
    (arg.fn = "_diagnose_budgeting" /\ out.done /\ SteadySaver(arg.transactions)) =>
        /\ out.value.result.score = 100
        /\ out.value.result.status = "excellent"
        /\ out.value.result.data_available
        /\ Ge(out.value.result.avg_savings_rate, Num(20))
        /\ out.value.result.overspending_months = 0
        /\ out.value.result.savings_consistency = OneMinusRoot(Num(0))
        /\ out.value.risks = <<>>

\* the call on three months of income 1000 and expense 700 has returned
C17_Witness ==
    /\ arg.fn = "_diagnose_budgeting"
    /\ out.done
    /\ SteadySaver(arg.transactions)
    /\ Len(arg.transactions) = 6
    /\ \A i \in 1..6 : arg.transactions[i].amount.v \in {1000, 700}
    /\ out.value.result.score = 100


\* the expense rows of the table whose description is exactly d
ChargesOf(df, d) ==
    LET is(r) == r.type = "expense" /\ r.description = d IN SelectSeq(df, is)

\* the rows are n >= 3 charges of one amount on the 1st of consecutive months
MonthlyCharges(rows) ==
    /\ Len(rows) >= 3
    /\ \A i \in 1..Len(rows) : rows[i].amount = rows[1].amount /\ rows[i].date[3] = 1
    /\ \A i \in 1..(Len(rows) - 1) :
          rows[i + 1].date[1] * 12 + rows[i + 1].date[2]
              = rows[i].date[1] * 12 + rows[i].date[2] + 1

\* the entry reports the charges `rows` seen on the day `now`: 'Monthly', as
\* many occurrences as rows, and the next due date one average interval
\* after the last charge, to the day, or 'Overdue' when that day is not ahead
ReportsMonthly(entry, rows, now) ==
    LET n == Len(rows)
        last == rows[n].date
        span == DayNumber(last) - DayNumber(rows[1].date)
        due == AddDays(last, span \div (n - 1))
    IN  /\ entry.frequency = "Monthly"
        /\ entry.occurrences = n
        /\ entry.next_due = IF DayNumber(due) > DayNumber(now) THEN Strftime(due)
                            ELSE "Overdue"

\* C18: for an expense description charged n >= 3 times with one amount on
\* the 1st of consecutive months, detect_recurring_transactions returns
\* exactly one entry of that description, with frequency 'Monthly',
\* occurrences n and the next due date one average interval after the last
\* charge, or 'Overdue' when that date is past.
C18_MonthlyChargeReported ==
    (arg.fn = "detect_recurring_transactions" /\ out.done) =>
        \A k \in 1..Len(arg.df) :
            LET d == arg.df[k].description
                rows == ChargesOf(arg.df, d)
            IN  (arg.df[k].type = "expense" /\ MonthlyCharges(rows)) =>
                    /\ "value" \in DOMAIN out
                    /\ Cardinality({i \in 1..Len(out.value) :
                                       out.value[i].description = d}) = 1
                    /\ \A i \in 1..Len(out.value) :
                          out.value[i].description = d =>
                              ReportsMonthly(out.value[i], rows, arg.now)


\* the expense rows of the table in the category of its row i
SameCategory(df, i) ==
    LET of(r) == r.type = "expense" /\ r.category = df[i].category
    IN  SelectSeq(df, of)

\* n * amount - sum, for row i among the n expenses of its category: n times
\* the distance of the amount from the mean
Lead(df, i) ==
    LET rows == SameCategory(df, i)
    IN  Len(rows) * df[i].amount - SumSeq([j \in 1..Len(rows) |-> rows[j].amount])

\* n * (sum of squares) - sum^2 over the n expenses of the category of row i:
\* n * (n - 1) times the square of the standard deviation
Spread(df, i) ==
    LET rows == SameCategory(df, i)
        t == SumSeq([j \in 1..Len(rows) |-> rows[j].amount])
        q == SumSeq([j \in 1..Len(rows) |-> rows[j].amount * rows[j].amount])
    IN  Len(rows) * q - t * t

\* row i is an expense whose category has at least 3 expenses and a non-zero
\* standard deviation, and whose amount is strictly greater than
\* mean + k * stdev, for a threshold k >= 0
Exceeds(df, i, k) ==
    LET n == Len(SameCategory(df, i))
    IN  /\ df[i].type = "expense"
        /\ n >= 3
        /\ Spread(df, i) > 0
        /\ Lead(df, i) > 0
        /\ Lead(df, i) * Lead(df, i) * (n - 1) * k.d * k.d
               > k.n * k.n * n * Spread(df, i)

\* the square of (amount - mean) / stdev for row i
DeviationSquared(df, i) ==
    LET n == Len(SameCategory(df, i))
    IN  Frac(Lead(df, i) * Lead(df, i) * (n - 1), n * Spread(df, i))

\* C19: detect_unusual_spending flags an expense iff its category has at
\* least 3 expenses, a non-zero standard deviation, and the amount is
\* strictly greater than mean + k * stdev of the category; the result holds
\* the flagged expenses of greatest deviation, at most 10, the greatest first.
C19_OutliersFlagged ==
    (arg.fn = "detect_unusual_spending" /\ out.done) =>
        LET df == arg.df
            res == out.value
            flagged == {i \in 1..Len(df) : Exceeds(df, i, arg.threshold)}
            RowOf(entry) ==
                {i \in flagged : /\ Strftime(df[i].date) = entry.date
                                 /\ df[i].category = entry.category
                                 /\ Num(df[i].amount) = entry.amount}
            reported == UNION {RowOf(res[j]) : j \in 1..Len(res)}
        IN  /\ Len(res) = Min(10, Cardinality(flagged))
            /\ Cardinality(reported) = Len(res)
            /\ \A j \in 1..Len(res) :
                  /\ Cardinality(RowOf(res[j])) = 1
                  /\ \A i \in RowOf(res[j]) :
                        /\ res[j].deviation = SignedRoot(1, DeviationSquared(df, i))
                        /\ \A x \in flagged \ reported :
                              Ge(DeviationSquared(df, i), DeviationSquared(df, x))
            /\ \A j \in 1..(Len(res) - 1) : Ge(res[j].deviation.sq, res[j + 1].deviation.sq)

\* more than 10 expenses of three categories exceed the bound, and the call
\* has returned 10 of them
C19_Witness ==
    /\ arg.fn = "detect_unusual_spending"
    /\ out.done
    /\ Cardinality({i \in 1..Len(arg.df) : Exceeds(arg.df, i, arg.threshold)}) > 10
    /\ Len(out.value) = 10
    /\ {out.value[j].category : j \in 1..10} = {"Dining", "Travel", "Groceries"}
    /\ \E j \in 1..9 : Gt(out.value[j].deviation.sq, out.value[j + 1].deviation.sq)


\* C20: the result of analyze_finances contains a 'diagnostic_report' that
\* holds the engine's overall_score, grade and per-category diagnostics for
\* the same transactions and accounts tables.
C20_DiagnosticReport ==
    (arg.fn = "analyze_finances" /\ out.done /\ "value" \in DOMAIN out) =>
        /\ "diagnostic_report" \in DOMAIN out.value
        /\ LET report == out.value.diagnostic_report
               own == OwnOutcomes([transactions |-> arg.transactions_df,
                                   accounts |-> arg.accounts_df,
                                   user_profile |-> NoneProfile])
           IN  /\ report.grade = GetGrade(report.overall_score)
               /\ Len(report.diagnostics) = Len(own)
               /\ \A i \in 1..Len(own) : report.diagnostics[i].value = own[i].result


\* the debt-to-income ratio of a table of _diagnose_debt, from its rows: the
\* mean monthly payment over the mean monthly income, or over 1 without income
LoanRatio(tx) ==
    LET months == {tx[i].month : i \in 1..Len(tx)}
        loans == SumSeq([i \in 1..Len(tx) |->
                            IF tx[i].type = "expense" THEN tx[i].amount.v ELSE 0])
        wages == SumSeq([i \in 1..Len(tx) |->
                            IF tx[i].type = "income" THEN tx[i].amount.v ELSE 0])
    IN  IF wages = 0 THEN Frac(loans, Cardinality(months)) ELSE Frac(loans, wages)

\* C21: with a description that matches a debt keyword, the debt score is 20
\* if debt-to-income > 0.5, 40 if > 0.36, 60 if > 0.28, 80 if > 0.15 and 100
\* otherwise, and a debt risk is recorded iff debt-to-income > 0.36.
C21_DebtLadder ==
    (arg.fn = "_diagnose_debt" /\ out.done) =>
        LET ratio == LoanRatio(arg.transactions)
            result == out.value.result
        IN  /\ result.data_available
            /\ result.debt_to_income = ratio
            /\ result.score = (IF ratio.n * 100 > 50 * ratio.d THEN 20
                               ELSE IF ratio.n * 100 > 36 * ratio.d THEN 40
                               ELSE IF ratio.n * 100 > 28 * ratio.d THEN 60
                               ELSE IF ratio.n * 100 > 15 * ratio.d THEN 80
                               ELSE 100)
            /\ (Len(out.value.risks) = 1) <=> (ratio.n * 100 > 36 * ratio.d)
            /\ Len(out.value.risks) <= 1
            /\ \A i \in 1..Len(out.value.risks) :
                   Contains(out.value.risks[i], "debt-to-income")
            /\ out.value.gaps = <<>>

\* the call has returned for a ratio of exactly 0.36: score 60 and no risk
C21_Witness ==
    /\ arg.fn = "_diagnose_debt"
    /\ out.done
    /\ LoanRatio(arg.transactions) = Frac(36, 100)
    /\ out.value.result.score = 60
    /\ out.value.risks = <<>>


\* the trend points of an expenses result: its score less the points its
\* expense ratio and its essential ratio earn
TrendPoints(d) ==
    d.score
    - (IF Lt(d.expense_ratio, Frac(5, 10)) THEN 40
       ELSE IF Lt(d.expense_ratio, Frac(7, 10)) THEN 30
       ELSE IF Lt(d.expense_ratio, Frac(9, 10)) THEN 20
       ELSE 0)
    - (IF Gt(d.essential_ratio, Frac(5, 10)) /\ Lt(d.essential_ratio, Frac(8, 10))
       THEN 30
       ELSE IF Ge(d.essential_ratio, Frac(8, 10)) THEN 20
       ELSE 10)

\* the monthly expenses have a prior period, and the mean of the last three
\* months is more than 10% below the mean of the months before
ShrankOverTenPercent(ms) ==
    /\ Len(ms) > 3
    /\ SumSeq(SubSeq(ms, Len(ms) - 2, Len(ms))) * 10 * (Len(ms) - 3)
           < SumSeq(SubSeq(ms, 1, Len(ms) - 3)) * 9 * 3

\* C22: the expenses classifier awards its 30 trend points only when the
\* mean expense of the trailing three months is more than 10% below the
\* mean of the prior months; a run of exactly three months gets none.
C22_TrendBonusOnlyOnShrink ==
    \A e \in Engines :
        (OHas(diagnostics[e], "expenses")
            /\ OGet(diagnostics[e], "expenses").data_available) =>
                (TrendPoints(OGet(diagnostics[e], "expenses")) = 30
                    => ShrankOverTenPercent(
                           MonthlySums(OfType(transactions[e], "expense"))))


\* the recommendation categories in the order the rules are listed
RuleOrder == <<"Income", "Expenses", "Debt", "Emergency Fund", "Savings">>
RulePlace(category) == CHOOSE i \in 1..Len(RuleOrder) : RuleOrder[i] = category
Recommended(r, category) ==
    \E i \in 1..Len(r.recommendations) : r.recommendations[i].category = category

\* where the metric of a rule is reported, the item is there iff the rule fires
RuleMet(r, category, key, metric, fires) ==
    (OHas(r.diagnostics, key) /\ metric \in DOMAIN OGet(r.diagnostics, key))
        => (Recommended(r, category) <=> fires)

Asked(questions, id) ==
    Cardinality({i \in 1..Len(questions) : questions[i].id = id})

\* C24: in the first run of an engine the questionnaire holds a question
\* with id 'financial_goals' iff the user profile supplied no goals, and then
\* holds it exactly once.
C24_GoalsQuestionOnce ==
    \A e \in Engines :
        Len(returned[e]) >= 1 =>
            Asked(returned[e][1].questionnaire, "financial_goals")
                = (IF Len(DictGet(ProfileOrEmpty(input[e].user_profile), "goals", <<>>)) = 0
                   THEN 1 ELSE 0)

\* a first run without goals returned the goals question, and one asked
\* nothing about goals because the profile supplied them
C24_Witness ==
    \E e \in Engines :
        /\ Len(returned[e]) >= 1
        /\ input[e].user_profile = NoneProfile
        /\ Len(input[e].transactions) > 0
        /\ Asked(returned[e][1].questionnaire, "financial_goals") = 1
        /\ Asked(returned[e][1].questionnaire, "risk_tolerance") = 1


Recorded(r, gap) == \E i \in 1..Len(r.gaps) : r.gaps[i] = gap

\* C25: in the questionnaire of a run the only id that occurs twice is
\* 'credit_score', no id occurs more often, and 'credit_score' occurs twice
\* exactly when the run recorded both the gap of no debt payments and the gap
\* of no credit card activity.
C25_OnlyCreditScoreTwice ==
    \A e \in Engines : \A k \in 1..Len(returned[e]) :
        LET r == returned[e][k]
            q == r.questionnaire
        IN  /\ \A i \in 1..Len(q) :
                   Asked(q, q[i].id) <= (IF q[i].id = "credit_score" THEN 2 ELSE 1)
            /\ Asked(q, "credit_score") = 2
                   <=> (Recorded(r, GapDebt) /\ Recorded(r, GapCredit))


\* C26: calculate_savings_goals reports for each goal the status 'achieved'
\* iff current savings >= target, otherwise 'on_track' under 12 months to
\* the target, 'at_risk' under 24, else 'off_track'; without monthly savings
\* months_needed is None, the projected date 'Unknown' and an unachieved goal
\* 'off_track'; remaining is never negative and progress_percent never
\* above 100.
C26_GoalStatusLadder ==
    (arg.fn = "calculate_savings_goals" /\ out.done) =>
        /\ "value" \in DOMAIN out
        /\ Len(out.value) = Len(arg.goals)
        /\ \A i \in 1..Len(arg.goals) :
               LET r == out.value[i]
                   short == arg.goals[i].target - arg.current_savings
                   within(limit) ==
                       arg.monthly_savings > 0 /\ short < limit * arg.monthly_savings
               IN  /\ r.status =
                          (IF short <= 0 THEN "achieved"
                           ELSE IF within(12) THEN "on_track"
                           ELSE IF within(24) THEN "at_risk"
                           ELSE "off_track")
                   /\ arg.monthly_savings <= 0 =>
                          /\ r.months_needed = [none |-> TRUE]
                          /\ r.projected_date = "Unknown"
                   /\ Ge(r.remaining, Num(0))
                   /\ Le(r.progress_percent, Num(100))


HighExpenseRisk(r) ==
    \E i \in 1..Len(r.risks) : Contains(r.risks[i], "High expense ratio")

\* C27: a run in which the expenses classifier recorded the risk 'High
\* expense ratio' returns the Expenses recommendation, also when expenses
\* are exactly 0.9 of income.
C27_RiskMeansRecommendation ==
    \A e \in Engines : \A k \in 1..Len(returned[e]) :
        HighExpenseRisk(returned[e][k]) => Recommended(returned[e][k], "Expenses")


\* C28: a run returns the Savings recommendation only when the budgeting
\* classifier had data and reported a savings rate below 10; with the
\* no-data default of budgeting there is no Savings recommendation.
C28_SavingsNeedsRate ==
    \A e \in Engines : \A k \in 1..Len(returned[e]) :
        LET r == returned[e][k]
            budgeting == OGet(r.diagnostics, "budgeting")
        IN  Recommended(r, "Savings") =>
                /\ budgeting.data_available
                /\ "avg_savings_rate" \in DOMAIN budgeting
                /\ Lt(budgeting.avg_savings_rate, Num(10))


\* the reset_password calls with the token that have returned True
Succeeded(token) ==
    {p \in Callers : /\ requests[p].fn = "reset_password"
                     /\ requests[p].token = token
                     /\ requests[p].at = "returned"
                     /\ requests[p].result = TRUE}

\* request p makes its call in this step, after a reset_password with the
\* same token has returned True, and the call fails
LaterCallFails(p) ==
    (requests[p].at = "called" /\ requests'[p].at # "called"
        /\ Succeeded(requests[p].token) # {}) =>
            /\ requests'[p].at = "returned"
            /\ requests'[p].result =
                   (IF requests[p].fn = "reset_password" THEN FALSE ELSE [none |-> TRUE])

\* C29: a reset token changes a password at most once: at most one
\* reset_password call with a token returns True, also when two calls
\* interleave their verify and update steps, and every reset_password or
\* verify_reset_token called with the token afterwards fails.
C29_TokenSpentOnce ==
    /\ [](\A p \in Callers : Cardinality(Succeeded(requests[p].token)) <= 1)
    /\ [][\A p \in Callers : LaterCallFails(p)]_vars


\* the entry counts the row: the row's description holds the first 20
\* characters of the entry's, whatever the case
CountedUnder(row, entry) ==
    Contains(Lower(row.description),
             Lower(SubSeq(entry.description, 1, Min(Len(entry.description), 20))))

\* C30: detect_recurring_transactions counts each expense row under at most
\* one of the entries it returns, also when the first 20 characters of one
\* description occur inside another ('Netflix', 'Netflix Premium').
C30_CountedOnce ==
    (arg.fn = "detect_recurring_transactions" /\ out.done /\ "value" \in DOMAIN out) =>
        /\ \A k \in 1..Len(arg.df) :
               arg.df[k].type = "expense" =>
                   Cardinality({i \in 1..Len(out.value) :
                                   CountedUnder(arg.df[k], out.value[i])}) <= 1
        /\ SumSeq([i \in 1..Len(out.value) |-> out.value[i].occurrences])
               <= Len(OfType(arg.df, "expense"))

====
